---- MODULE Spec2Model ----
(***************************************************************************)
(* A model of the CodeAnalytics analysis engine.                           *)
(*                                                                         *)
(* Text is a sequence of one-character strings, so that split, strip,      *)
(* startswith, slicing and regular-expression search are computed on the   *)
(* characters as Python computes them.                                     *)
(***************************************************************************)
EXTENDS Integers, Sequences, FiniteSets, TLC

(***************************************************************************)
(* Python str primitives                                                   *)
(***************************************************************************)

\* Characters str.strip() removes and the regex class \s matches.
WHITESPACE == {" ", "\t", "\n", "\r", "\f"}

DIGITS == {"0", "1", "2", "3", "4", "5", "6", "7", "8", "9"}

ASCII_LOWER ==
    {"a", "b", "c", "d", "e", "f", "g", "h", "i", "j", "k", "l", "m",
     "n", "o", "p", "q", "r", "s", "t", "u", "v", "w", "x", "y", "z"}

ASCII_UPPER ==
    {"A", "B", "C", "D", "E", "F", "G", "H", "I", "J", "K", "L", "M",
     "N", "O", "P", "Q", "R", "S", "T", "U", "V", "W", "X", "Y", "Z"}

\* The regex class \w.
WORD == ASCII_LOWER \cup ASCII_UPPER \cup DIGITS \cup {"_"}

ToLower ==
    ("A" :> "a") @@ ("B" :> "b") @@ ("C" :> "c") @@ ("D" :> "d") @@
    ("E" :> "e") @@ ("F" :> "f") @@ ("G" :> "g") @@ ("H" :> "h") @@
    ("I" :> "i") @@ ("J" :> "j") @@ ("K" :> "k") @@ ("L" :> "l") @@
    ("M" :> "m") @@ ("N" :> "n") @@ ("O" :> "o") @@ ("P" :> "p") @@
    ("Q" :> "q") @@ ("R" :> "r") @@ ("S" :> "s") @@ ("T" :> "t") @@
    ("U" :> "u") @@ ("V" :> "v") @@ ("W" :> "w") @@ ("X" :> "x") @@
    ("Y" :> "y") @@ ("Z" :> "z")

\* str.lower() on one character, and on a string.
LowerChar(c) == IF c \in ASCII_UPPER THEN ToLower[c] ELSE c

Lower(s) == [i \in 1..Len(s) |-> LowerChar(s[i])]

Min(a, b) == IF a < b THEN a ELSE b

Max(a, b) == IF a > b THEN a ELSE b

\* s[:n]
Prefix(s, n) == SubSeq(s, 1, Min(n, Len(s)))

\* s.startswith(p)
StartsWith(s, p) == Len(p) <= Len(s) /\ SubSeq(s, 1, Len(p)) = p

\* s.startswith((p1, p2, ...))
StartsWithAny(s, ps) == \E p \in ps : StartsWith(s, p)

\* The first and the last character of s that is not whitespace (s has one).
FirstInk(s) ==
    CHOOSE i \in 1..Len(s) :
        s[i] \notin WHITESPACE /\ \A j \in 1..(i - 1) : s[j] \in WHITESPACE

LastInk(s) ==
    CHOOSE i \in 1..Len(s) :
        s[i] \notin WHITESPACE /\ \A j \in (i + 1)..Len(s) : s[j] \in WHITESPACE

\* s.lstrip(), s.strip()
LStrip(s) ==
    IF \A i \in 1..Len(s) : s[i] \in WHITESPACE THEN <<>>
    ELSE SubSeq(s, FirstInk(s), Len(s))

Strip(s) ==
    IF \A i \in 1..Len(s) : s[i] \in WHITESPACE THEN <<>>
    ELSE SubSeq(s, FirstInk(s), LastInk(s))

\* s.split("\n"): the segments between line feeds; a text with k line feeds
\* has k + 1 segments, the last one empty when the text ends with a line feed.
RECURSIVE SplitFrom(_, _)
SplitFrom(s, from) ==
    LET nl == {i \in from..Len(s) : s[i] = "\n"}
    IN  IF nl = {} THEN <<SubSeq(s, from, Len(s))>>
        ELSE LET i == CHOOSE k \in nl : \A j \in nl : k <= j
             IN  <<SubSeq(s, from, i - 1)>> \o SplitFrom(s, i + 1)

SplitLines(s) == SplitFrom(s, 1)

\* "\n".join(ls)
RECURSIVE JoinLines(_)
JoinLines(ls) ==
    IF Len(ls) = 0 THEN <<>>
    ELSE IF Len(ls) = 1 THEN ls[1]
    ELSE ls[1] \o <<"\n">> \o JoinLines(Tail(ls))

\* s[:pos].count("\n") + 1: the 1-based line holding the 0-based offset pos.
LineOfOffset(s, pos) == Cardinality({i \in 1..Min(pos, Len(s)) : s[i] = "\n"}) + 1

(***************************************************************************)
(* Regular expressions (Python's re module, for the pattern shapes the     *)
(* analyzers use).  A pattern is a sequence of elements:                   *)
(*   cls  a character class repeated min..max times (max < 0: unbounded);  *)
(*   alt  a group of alternatives;                                         *)
(*   wb   the assertion \b;   bol  the assertion ^ under re.MULTILINE;     *)
(*   bos  the assertion ^ without re.MULTILINE;                            *)
(*   nla  the negative lookahead (?!...);  nlb  the negative lookbehind    *)
(*        (?<!...) of one character.                                       *)
(* Positions are 0-based offsets: position q lies before character q+1.    *)
(* Every quantifier of the analyzers' patterns is greedy, and in each of   *)
(* them the characters a match covers are decided by its start up to the   *)
(* last quantifier, which takes as much as it can: the match the           *)
(* backtracking matcher returns is the one with the largest end.           *)
(***************************************************************************)

Elem(t, neg, cs, lo, hi, sub) ==
    [t |-> t, neg |-> neg, cs |-> cs, min |-> lo, max |-> hi, sub |-> sub]

\* A literal string.
Str(s) == [i \in 1..Len(s) |-> Elem("cls", FALSE, {s[i]}, 1, 1, <<>>)]

\* [...] and [^...]
In(cs) == <<Elem("cls", FALSE, cs, 1, 1, <<>>)>>

NotIn(cs) == <<Elem("cls", TRUE, cs, 1, 1, <<>>)>>

\* "." matches any character but a line feed.
ANY == NotIn({"\n"})

\* x{lo,hi}, x*, x+, x? for a one-character pattern x
Rep(x, lo, hi) == <<[x[1] EXCEPT !.min = lo, !.max = hi]>>

Star(x) == Rep(x, 0, -1)

Plus(x) == Rep(x, 1, -1)

Opt(x) == Rep(x, 0, 1)

\* (a|b|...)
Alt(alts) == <<Elem("alt", FALSE, {}, 1, 1, alts)>>

WB == <<Elem("wb", FALSE, {}, 0, 0, <<>>)>>

BOL == <<Elem("bol", FALSE, {}, 0, 0, <<>>)>>

BOS == <<Elem("bos", FALSE, {}, 0, 0, <<>>)>>

\* (?:p)?
OptGroup(p) == Alt(<<p, <<>>>>)

NotAhead(p) == <<Elem("nla", FALSE, {}, 0, 0, p)>>

NotBehind(cs) == <<Elem("nlb", FALSE, cs, 0, 0, <<>>)>>

MinOf(S) == CHOOSE m \in S : \A u \in S : m <= u

MaxOf(S) == CHOOSE m \in S : \A u \in S : m >= u

\* Whether character c is in the class of element e; under re.IGNORECASE the
\* comparison is made on the lower-cased characters.
InClass(e, c, ic) ==
    (IF ic THEN LowerChar(c) \in {LowerChar(d) : d \in e.cs} ELSE c \in e.cs) # e.neg

\* The number of consecutive characters after position q that are in e's class.
RunLen(e, s, q, ic) ==
    MinOf({j \in (q + 1)..Len(s) : ~InClass(e, s[j], ic)} \cup {Len(s) + 1}) - q - 1

\* The largest repeat count e allows on a run of `run` characters.
MaxCount(e, run) == IF e.max < 0 THEN run ELSE Min(e.max, run)

\* \b: exactly one of the characters around q is a word character.
AtBoundary(s, q) ==
    (q >= 1 /\ s[q] \in WORD) # (q < Len(s) /\ s[q + 1] \in WORD)

\* Ends: the positions where a match of elements i.. of p can end when it
\* starts at one of the positions Q.  Step: the same for the single element e.
RECURSIVE Ends(_, _, _, _, _), Step(_, _, _, _)
Step(e, s, Q, ic) ==
    CASE e.t = "cls" ->
           UNION {{q + n : n \in e.min..MaxCount(e, RunLen(e, s, q, ic))} : q \in Q}
      [] e.t = "alt" ->
           UNION {Ends(e.sub[k], 1, s, Q, ic) : k \in 1..Len(e.sub)}
      [] e.t = "wb"  -> {q \in Q : AtBoundary(s, q)}
      [] e.t = "bol" -> {q \in Q : q = 0 \/ s[q] = "\n"}
      [] e.t = "bos" -> Q \cap {0}
      [] e.t = "nla" -> {q \in Q : Ends(e.sub, 1, s, {q}, ic) = {}}
      [] e.t = "nlb" -> {q \in Q : q = 0 \/ s[q] \notin e.cs}

Ends(p, i, s, Q, ic) ==
    IF i > Len(p) \/ Q = {} THEN Q
    ELSE Ends(p, i + 1, s, Step(p[i], s, Q, ic), ic)

\* The end of the match of p that starts at position q, or -1.
EndOrNone(ends) == IF ends = {} THEN -1 ELSE MaxOf(ends)

MatchEnd(p, s, q, ic) == EndOrNone(Ends(p, 1, s, {q}, ic))

\* The leftmost of a set of <<start, end>> matches, or <<-1, -1>>.
LeftMost(found) ==
    IF found = {} THEN <<-1, -1>>
    ELSE CHOOSE m \in found : \A u \in found : m[1] <= u[1]

\* re.search, and one step of re.finditer: the leftmost match starting at or
\* after `from`, as <<start, end>>, or <<-1, -1>>.
SearchFrom(p, s, from, ic) ==
    LeftMost({m \in {<<q, MatchEnd(p, s, q, ic)>> : q \in from..Len(s)} : m[2] # -1})

\* bool(re.search(p, s, flags))
ReSearch(p, s, ic) == \E q \in 0..Len(s) : Ends(p, 1, s, {q}, ic) # {}

\* bool(re.match(p, s, flags))
ReMatch(p, s, ic) == Ends(p, 1, s, {0}, ic) # {}

\* Every <<start, end>> at which p matches s.
AllMatches(p, s, ic) ==
    {m \in {<<q, MatchEnd(p, s, q, ic)>> : q \in 0..Len(s)} : m[2] # -1}

\* The matches of `found` a scan reports from position `from` on: the leftmost
\* one, then those after its end (one character further after an empty match).
RECURSIVE ScanFrom(_, _), ScanIn(_, _), ScanNext(_, _)
ScanFrom(found, from) == ScanIn(found, {m \in found : m[1] >= from})

ScanIn(found, later) ==
    IF later = {} THEN <<>> ELSE ScanNext(found, LeftMost(later))

ScanNext(found, m) ==
    <<m>> \o ScanFrom(found, IF m[2] = m[1] THEN m[2] + 1 ELSE m[2])

\* list(re.finditer(p, s, flags)): the non-overlapping matches, left to right.
FindIter(p, s, ic) == ScanFrom(AllMatches(p, s, ic), 0)

\* The text of a match: s[start:end].
Slice(s, start, end) == SubSeq(s, start + 1, end)

(***************************************************************************)
(* SecurityAnalyzer.SECURITY_PATTERNS: per language an ordered dict from    *)
(* category to its list of (pattern, message) rules.  An ordered dict is a  *)
(* sequence of [key, value] entries with distinct keys.                     *)
(***************************************************************************)

Rule(pattern, message) == [pattern |-> pattern, message |-> message]

Entry(key, value) == [key |-> key, value |-> value]

SECURITY_PATTERNS_python ==
    <<
      Entry("sql_injection", <<
        \* execute\s*\(\s*["\'].*%s
        Rule(Str(<<"e", "x", "e", "c", "u", "t", "e">>) \o Star(In(WHITESPACE)) \o Str(<<"(">>) \o Star(In(WHITESPACE)) \o In({"\"", "'"}) \o Star(ANY) \o Str(<<"%", "s">>),
             "Possible SQL injection using string formatting"),
        \* execute\s*\(\s*f["\']
        Rule(Str(<<"e", "x", "e", "c", "u", "t", "e">>) \o Star(In(WHITESPACE)) \o Str(<<"(">>) \o Star(In(WHITESPACE)) \o Str(<<"f">>) \o In({"\"", "'"}),
             "Possible SQL injection using f-string"),
        \* execute\s*\(\s*["\'].*\+
        Rule(Str(<<"e", "x", "e", "c", "u", "t", "e">>) \o Star(In(WHITESPACE)) \o Str(<<"(">>) \o Star(In(WHITESPACE)) \o In({"\"", "'"}) \o Star(ANY) \o Str(<<"+">>),
             "Possible SQL injection using string concatenation"),
        \* cursor\.execute\s*\([^,]+\+
        Rule(Str(<<"c", "u", "r", "s", "o", "r", ".", "e", "x", "e", "c", "u", "t", "e">>) \o Star(In(WHITESPACE)) \o Str(<<"(">>) \o Plus(NotIn({","})) \o Str(<<"+">>),
             "SQL query built with concatenation")
      >>),
      Entry("command_injection", <<
        \* os\.system\s*\(
        Rule(Str(<<"o", "s", ".", "s", "y", "s", "t", "e", "m">>) \o Star(In(WHITESPACE)) \o Str(<<"(">>),
             "Use of os.system() - consider subprocess instead"),
        \* subprocess\.call\s*\([^,]+shell\s*=\s*True
        Rule(Str(<<"s", "u", "b", "p", "r", "o", "c", "e", "s", "s", ".", "c", "a", "l", "l">>) \o Star(In(WHITESPACE)) \o Str(<<"(">>) \o Plus(NotIn({","})) \o Str(<<"s", "h", "e", "l", "l">>) \o Star(In(WHITESPACE)) \o Str(<<"=">>) \o Star(In(WHITESPACE)) \o Str(<<"T", "r", "u", "e">>),
             "Shell=True with subprocess is dangerous"),
        \* subprocess\.Popen\s*\([^,]+shell\s*=\s*True
        Rule(Str(<<"s", "u", "b", "p", "r", "o", "c", "e", "s", "s", ".", "P", "o", "p", "e", "n">>) \o Star(In(WHITESPACE)) \o Str(<<"(">>) \o Plus(NotIn({","})) \o Str(<<"s", "h", "e", "l", "l">>) \o Star(In(WHITESPACE)) \o Str(<<"=">>) \o Star(In(WHITESPACE)) \o Str(<<"T", "r", "u", "e">>),
             "Shell=True with subprocess is dangerous"),
        \* eval\s*\(
        Rule(Str(<<"e", "v", "a", "l">>) \o Star(In(WHITESPACE)) \o Str(<<"(">>),
             "Use of eval() - potential code injection"),
        \* exec\s*\(
        Rule(Str(<<"e", "x", "e", "c">>) \o Star(In(WHITESPACE)) \o Str(<<"(">>),
             "Use of exec() - potential code injection")
      >>),
      Entry("hardcoded_secrets", <<
        \* password\s*=\s*["\'][^"\']+["\']
        Rule(Str(<<"p", "a", "s", "s", "w", "o", "r", "d">>) \o Star(In(WHITESPACE)) \o Str(<<"=">>) \o Star(In(WHITESPACE)) \o In({"\"", "'"}) \o Plus(NotIn({"\"", "'"})) \o In({"\"", "'"}),
             "Possible hardcoded password"),
        \* api_key\s*=\s*["\'][^"\']+["\']
        Rule(Str(<<"a", "p", "i", "_", "k", "e", "y">>) \o Star(In(WHITESPACE)) \o Str(<<"=">>) \o Star(In(WHITESPACE)) \o In({"\"", "'"}) \o Plus(NotIn({"\"", "'"})) \o In({"\"", "'"}),
             "Possible hardcoded API key"),
        \* secret\s*=\s*["\'][^"\']+["\']
        Rule(Str(<<"s", "e", "c", "r", "e", "t">>) \o Star(In(WHITESPACE)) \o Str(<<"=">>) \o Star(In(WHITESPACE)) \o In({"\"", "'"}) \o Plus(NotIn({"\"", "'"})) \o In({"\"", "'"}),
             "Possible hardcoded secret"),
        \* token\s*=\s*["\'][^"\']+["\']
        Rule(Str(<<"t", "o", "k", "e", "n">>) \o Star(In(WHITESPACE)) \o Str(<<"=">>) \o Star(In(WHITESPACE)) \o In({"\"", "'"}) \o Plus(NotIn({"\"", "'"})) \o In({"\"", "'"}),
             "Possible hardcoded token"),
        \* AWS_ACCESS_KEY
        Rule(Str(<<"A", "W", "S", "_", "A", "C", "C", "E", "S", "S", "_", "K", "E", "Y">>),
             "Possible AWS credentials"),
        \* PRIVATE_KEY
        Rule(Str(<<"P", "R", "I", "V", "A", "T", "E", "_", "K", "E", "Y">>),
             "Possible private key")
      >>),
      Entry("unsafe_deserialization", <<
        \* pickle\.loads?\s*\(
        Rule(Str(<<"p", "i", "c", "k", "l", "e", ".", "l", "o", "a", "d">>) \o Opt(In({"s"})) \o Star(In(WHITESPACE)) \o Str(<<"(">>),
             "Pickle deserialization - untrusted data is dangerous"),
        \* yaml\.load\s*\([^,]+\)
        Rule(Str(<<"y", "a", "m", "l", ".", "l", "o", "a", "d">>) \o Star(In(WHITESPACE)) \o Str(<<"(">>) \o Plus(NotIn({","})) \o Str(<<")">>),
             "Use yaml.safe_load() instead of yaml.load()"),
        \* marshal\.loads?\s*\(
        Rule(Str(<<"m", "a", "r", "s", "h", "a", "l", ".", "l", "o", "a", "d">>) \o Opt(In({"s"})) \o Star(In(WHITESPACE)) \o Str(<<"(">>),
             "Marshal deserialization is unsafe")
      >>),
      Entry("path_traversal", <<
        \* open\s*\([^)]*\+[^)]*\)
        Rule(Str(<<"o", "p", "e", "n">>) \o Star(In(WHITESPACE)) \o Str(<<"(">>) \o Star(NotIn({")"})) \o Str(<<"+">>) \o Star(NotIn({")"})) \o Str(<<")">>),
             "File open with concatenation - possible path traversal")
      >>),
      Entry("weak_crypto", <<
        \* md5\s*\(
        Rule(Str(<<"m", "d", "5">>) \o Star(In(WHITESPACE)) \o Str(<<"(">>),
             "MD5 is cryptographically weak - use SHA-256+"),
        \* sha1\s*\(
        Rule(Str(<<"s", "h", "a", "1">>) \o Star(In(WHITESPACE)) \o Str(<<"(">>),
             "SHA1 is cryptographically weak - use SHA-256+"),
        \* DES\s*\(
        Rule(Str(<<"D", "E", "S">>) \o Star(In(WHITESPACE)) \o Str(<<"(">>),
             "DES encryption is weak - use AES")
      >>),
      Entry("insecure_random", <<
        \* random\.random\s*\(
        Rule(Str(<<"r", "a", "n", "d", "o", "m", ".", "r", "a", "n", "d", "o", "m">>) \o Star(In(WHITESPACE)) \o Str(<<"(">>),
             "random.random() not cryptographically secure - use secrets module"),
        \* random\.randint\s*\(
        Rule(Str(<<"r", "a", "n", "d", "o", "m", ".", "r", "a", "n", "d", "i", "n", "t">>) \o Star(In(WHITESPACE)) \o Str(<<"(">>),
             "random.randint() not cryptographically secure - use secrets module")
      >>),
      Entry("debug_code", <<
        \* print\s*\(.*password
        Rule(Str(<<"p", "r", "i", "n", "t">>) \o Star(In(WHITESPACE)) \o Str(<<"(">>) \o Star(ANY) \o Str(<<"p", "a", "s", "s", "w", "o", "r", "d">>),
             "Printing password information"),
        \* DEBUG\s*=\s*True
        Rule(Str(<<"D", "E", "B", "U", "G">>) \o Star(In(WHITESPACE)) \o Str(<<"=">>) \o Star(In(WHITESPACE)) \o Str(<<"T", "r", "u", "e">>),
             "Debug mode enabled"),
        \* \.set_trace\s*\(
        Rule(Str(<<".", "s", "e", "t", "_", "t", "r", "a", "c", "e">>) \o Star(In(WHITESPACE)) \o Str(<<"(">>),
             "Debugger breakpoint in code")
      >>)
    >>

SECURITY_PATTERNS_javascript ==
    <<
      Entry("xss", <<
        \* innerHTML\s*=
        Rule(Str(<<"i", "n", "n", "e", "r", "H", "T", "M", "L">>) \o Star(In(WHITESPACE)) \o Str(<<"=">>),
             "innerHTML assignment - possible XSS"),
        \* document\.write\s*\(
        Rule(Str(<<"d", "o", "c", "u", "m", "e", "n", "t", ".", "w", "r", "i", "t", "e">>) \o Star(In(WHITESPACE)) \o Str(<<"(">>),
             "document.write() - possible XSS"),
        \* \.html\s*\([^)]+\+
        Rule(Str(<<".", "h", "t", "m", "l">>) \o Star(In(WHITESPACE)) \o Str(<<"(">>) \o Plus(NotIn({")"})) \o Str(<<"+">>),
             "jQuery .html() with concatenation - possible XSS")
      >>),
      Entry("eval", <<
        \* eval\s*\(
        Rule(Str(<<"e", "v", "a", "l">>) \o Star(In(WHITESPACE)) \o Str(<<"(">>),
             "Use of eval() - potential code injection"),
        \* new\s+Function\s*\(
        Rule(Str(<<"n", "e", "w">>) \o Plus(In(WHITESPACE)) \o Str(<<"F", "u", "n", "c", "t", "i", "o", "n">>) \o Star(In(WHITESPACE)) \o Str(<<"(">>),
             "new Function() is similar to eval"),
        \* setTimeout\s*\(\s*["\']
        Rule(Str(<<"s", "e", "t", "T", "i", "m", "e", "o", "u", "t">>) \o Star(In(WHITESPACE)) \o Str(<<"(">>) \o Star(In(WHITESPACE)) \o In({"\"", "'"}),
             "setTimeout with string - similar to eval"),
        \* setInterval\s*\(\s*["\']
        Rule(Str(<<"s", "e", "t", "I", "n", "t", "e", "r", "v", "a", "l">>) \o Star(In(WHITESPACE)) \o Str(<<"(">>) \o Star(In(WHITESPACE)) \o In({"\"", "'"}),
             "setInterval with string - similar to eval")
      >>),
      Entry("hardcoded_secrets", <<
        \* apiKey\s*[:=]\s*["\'][^"\']+["\']
        Rule(Str(<<"a", "p", "i", "K", "e", "y">>) \o Star(In(WHITESPACE)) \o In({":", "="}) \o Star(In(WHITESPACE)) \o In({"\"", "'"}) \o Plus(NotIn({"\"", "'"})) \o In({"\"", "'"}),
             "Possible hardcoded API key"),
        \* password\s*[:=]\s*["\'][^"\']+["\']
        Rule(Str(<<"p", "a", "s", "s", "w", "o", "r", "d">>) \o Star(In(WHITESPACE)) \o In({":", "="}) \o Star(In(WHITESPACE)) \o In({"\"", "'"}) \o Plus(NotIn({"\"", "'"})) \o In({"\"", "'"}),
             "Possible hardcoded password"),
        \* secret\s*[:=]\s*["\'][^"\']+["\']
        Rule(Str(<<"s", "e", "c", "r", "e", "t">>) \o Star(In(WHITESPACE)) \o In({":", "="}) \o Star(In(WHITESPACE)) \o In({"\"", "'"}) \o Plus(NotIn({"\"", "'"})) \o In({"\"", "'"}),
             "Possible hardcoded secret")
      >>),
      Entry("prototype_pollution", <<
        \* __proto__
        Rule(Str(<<"_", "_", "p", "r", "o", "t", "o", "_", "_">>),
             "Prototype pollution risk"),
        \* constructor\s*\[
        Rule(Str(<<"c", "o", "n", "s", "t", "r", "u", "c", "t", "o", "r">>) \o Star(In(WHITESPACE)) \o Str(<<"[">>),
             "Possible prototype pollution")
      >>)
    >>

SECURITY_PATTERNS_general ==
    <<
      Entry("sensitive_data", <<
        \* (?i)password
        Rule(Str(<<"p", "a", "s", "s", "w", "o", "r", "d">>),
             "Reference to password"),
        \* (?i)api[_-]?key
        Rule(Str(<<"a", "p", "i">>) \o Opt(In({"_", "-"})) \o Str(<<"k", "e", "y">>),
             "Reference to API key"),
        \* (?i)secret[_-]?key
        Rule(Str(<<"s", "e", "c", "r", "e", "t">>) \o Opt(In({"_", "-"})) \o Str(<<"k", "e", "y">>),
             "Reference to secret key"),
        \* (?i)auth[_-]?token
        Rule(Str(<<"a", "u", "t", "h">>) \o Opt(In({"_", "-"})) \o Str(<<"t", "o", "k", "e", "n">>),
             "Reference to auth token"),
        \* (?i)private[_-]?key
        Rule(Str(<<"p", "r", "i", "v", "a", "t", "e">>) \o Opt(In({"_", "-"})) \o Str(<<"k", "e", "y">>),
             "Reference to private key")
      >>),
      Entry("ip_addresses", <<
        \* \b\d{1,3}\.\d{1,3}\.\d{1,3}\.\d{1,3}\b
        Rule(WB \o Rep(In(DIGITS), 1, 3) \o Str(<<".">>) \o Rep(In(DIGITS), 1, 3) \o Str(<<".">>) \o Rep(In(DIGITS), 1, 3) \o Str(<<".">>) \o Rep(In(DIGITS), 1, 3) \o WB,
             "Hardcoded IP address")
      >>),
      Entry("urls", <<
        \* http://(?!localhost)
        Rule(Str(<<"h", "t", "t", "p", ":", "/", "/">>) \o NotAhead(Str(<<"l", "o", "c", "a", "l", "h", "o", "s", "t">>)),
             "HTTP URL (not HTTPS)")
      >>)
    >>

\* The dict keyed by language name.
SECURITY_PATTERNS ==
    (<<"p", "y", "t", "h", "o", "n">> :> SECURITY_PATTERNS_python) @@
    (<<"j", "a", "v", "a", "s", "c", "r", "i", "p", "t">> :> SECURITY_PATTERNS_javascript) @@
    (<<"g", "e", "n", "e", "r", "a", "l">> :> SECURITY_PATTERNS_general)

(***************************************************************************)
(* The documents the security model is run on: texts built from these      *)
(* lines.                                                                  *)
(***************************************************************************)

\* (the empty line)
SEC_BLANK == <<>>

\* os.system("rm -rf " + user_input)
SEC_OS_SYSTEM == <<"o", "s", ".", "s", "y", "s", "t", "e", "m", "(", "\"", "r", "m", " ", "-", "r", "f", " ", "\"", " ", "+", " ", "u", "s", "e", "r", "_", "i", "n", "p", "u", "t", ")">>

\* password = "abc123"
SEC_PASSWORD == <<"p", "a", "s", "s", "w", "o", "r", "d", " ", "=", " ", "\"", "a", "b", "c", "1", "2", "3", "\"">>

\* # password = "abc123"
SEC_HASH_COMMENT == <<"#", " ", "p", "a", "s", "s", "w", "o", "r", "d", " ", "=", " ", "\"", "a", "b", "c", "1", "2", "3", "\"">>

\*     // eval(x)
SEC_SLASH_COMMENT == <<" ", " ", " ", " ", "/", "/", " ", "e", "v", "a", "l", "(", "x", ")">>

\* /* eval(x) */
SEC_BLOCK_COMMENT == <<"/", "*", " ", "e", "v", "a", "l", "(", "x", ")", " ", "*", "/">>

\*  * eval(x)
SEC_STAR_COMMENT == <<" ", "*", " ", "e", "v", "a", "l", "(", "x", ")">>

\*   h = MD5(EVAL (x))  
SEC_MD5 == <<" ", " ", "h", " ", "=", " ", "M", "D", "5", "(", "E", "V", "A", "L", " ", "(", "x", ")", ")", " ", " ">>

\* eval(cursor.execute("%s" + os.system(x)))
SEC_MANY == <<"e", "v", "a", "l", "(", "c", "u", "r", "s", "o", "r", ".", "e", "x", "e", "c", "u", "t", "e", "(", "\"", "%", "s", "\"", " ", "+", " ", "o", "s", ".", "s", "y", "s", "t", "e", "m", "(", "x", ")", ")", ")">>

\* DEBUG = True; url = "http://aaa...a" with 60 a: 89 characters
SEC_LONG ==
    <<"D", "E", "B", "U", "G", " ", "=", " ", "T", "r", "u", "e", ";", " ", "u", "r", "l", " ", "=", " ", "\"", "h", "t", "t", "p", ":", "/", "/">>
    \o [i \in 1..60 |-> "a"] \o <<"\"">>

(***************************************************************************)
(* The lines of the documents the analysis threads are run on.            *)
(***************************************************************************)

\* | 
RUN_BLANK == <<>>

\* | def Bad(a, b, c, d, e, g):
RUN_DEF_BAD == <<"d", "e", "f", " ", "B", "a", "d", "(", "a", ",", " ", "b", ",", " ", "c", ",", " ", "d", ",", " ", "e", ",", " ", "g", ")", ":">>

\* |     password = "hunter2"
RUN_PASSWORD == <<" ", " ", " ", " ", "p", "a", "s", "s", "w", "o", "r", "d", " ", "=", " ", "\"", "h", "u", "n", "t", "e", "r", "2", "\"">>

\* | def broken(:
RUN_BROKEN == <<"d", "e", "f", " ", "b", "r", "o", "k", "e", "n", "(", ":">>

\* | for i in range(len(xs)):
RUN_FOR_RANGE == <<"f", "o", "r", " ", "i", " ", "i", "n", " ", "r", "a", "n", "g", "e", "(", "l", "e", "n", "(", "x", "s", ")", ")", ":">>

\* |     for j in ys:
RUN_FOR_INNER == <<" ", " ", " ", " ", "f", "o", "r", " ", "j", " ", "i", "n", " ", "y", "s", ":">>

\* |         while k and j or i and k:
RUN_WHILE_INNER == <<" ", " ", " ", " ", " ", " ", " ", " ", "w", "h", "i", "l", "e", " ", "k", " ", "a", "n", "d", " ", "j", " ", "o", "r", " ", "i", " ", "a", "n", "d", " ", "k", ":">>

\* |             total += str(i)
RUN_CONCAT == <<" ", " ", " ", " ", " ", " ", " ", " ", " ", " ", " ", " ", "t", "o", "t", "a", "l", " ", "+", "=", " ", "s", "t", "r", "(", "i", ")">>

\* | def long(a):
RUN_LONG_DEF == <<"d", "e", "f", " ", "l", "o", "n", "g", "(", "a", ")", ":">>

\* | pass
RUN_PASS == <<"p", "a", "s", "s">>

\* | def next_one(b):
RUN_NEXT_DEF == <<"d", "e", "f", " ", "n", "e", "x", "t", "_", "o", "n", "e", "(", "b", ")", ":">>

\* | function Foo() { el.innerHTML = x; eval(y) }
RUN_JS == <<"f", "u", "n", "c", "t", "i", "o", "n", " ", "F", "o", "o", "(", ")", " ", "{", " ", "e", "l", ".", "i", "n", "n", "e", "r", "H", "T", "M", "L", " ", "=", " ", "x", ";", " ", "e", "v", "a", "l", "(", "y", ")", " ", "}">>

\* |                     threshold = 4242 + 1700
RUN_DUP == [i \in 1..20 |-> " "] \o <<"t", "h", "r", "e", "s", "h", "o", "l", "d", " ", "=", " ", "4", "2", "4", "2", " ", "+", " ", "1", "7", "0", "0">>

\* | x = aaaaaaaaaaaaaaaaaaaaaaaaaaaaaaaaaaaaaaaaaaaaaaaaaaaaaaaa...
RUN_WIDE == <<"x", " ", "=", " ">> \o [i \in 1..120 |-> "a"]

RunCorpus ==
    {RUN_BLANK,
     RUN_DEF_BAD,
     RUN_PASSWORD,
     RUN_BROKEN,
     RUN_FOR_RANGE,
     RUN_FOR_INNER,
     RUN_WHILE_INNER,
     RUN_CONCAT,
     RUN_LONG_DEF,
     RUN_PASS,
     RUN_NEXT_DEF,
     RUN_JS,
     RUN_DUP,
     RUN_WIDE}

SecCorpus ==
    {SEC_BLANK,
     SEC_OS_SYSTEM,
     SEC_PASSWORD,
     SEC_HASH_COMMENT,
     SEC_SLASH_COMMENT,
     SEC_BLOCK_COMMENT,
     SEC_STAR_COMMENT,
     SEC_MD5,
     SEC_LONG,
     SEC_MANY}
\* Every pattern of SECURITY_PATTERNS.
SecAllPatterns ==
    UNION {UNION {{d[c].value[k].pattern : k \in 1..Len(d[c].value)} : c \in 1..Len(d)} :
              d \in {SECURITY_PATTERNS[l] : l \in DOMAIN SECURITY_PATTERNS}}

\* re.search(pattern, line, re.IGNORECASE) tabulated once for the lines of the
\* corpus: the <<line, pattern>> pairs that match.
SecSearchTable ==
    UNION {{<<line, p>> : p \in {q \in SecAllPatterns : ReSearch(q, line, TRUE)}} :
              line \in SecCorpus \cup RunCorpus}

\* re.search(pattern, line, re.IGNORECASE) as analyze() calls it.
SecSearch(pattern, line) ==
    IF line \in SecCorpus \cup RunCorpus
    THEN <<line, pattern>> \in SecSearchTable
    ELSE ReSearch(pattern, line, TRUE)

(***************************************************************************)
(* Ordered dicts                                                           *)
(***************************************************************************)

DictKeys(d) == {d[i].key : i \in 1..Len(d)}

DictGet(d, k) == d[CHOOSE i \in 1..Len(d) : d[i].key = k].value

\* d[k] = v: an existing key keeps its position, a new key goes last.
DictSet(d, k, v) ==
    IF k \in DictKeys(d)
    THEN [i \in 1..Len(d) |-> IF d[i].key = k THEN Entry(k, v) ELSE d[i]]
    ELSE Append(d, Entry(k, v))

\* A merge that keeps only the dict merged in last.
DictReplace(d, e) == e

\* d.update(e)
RECURSIVE DictUpdate(_, _)
DictUpdate(d, e) ==
    IF Len(e) = 0 THEN d
    ELSE DictUpdate(DictSet(d, e[1].key, e[1].value), Tail(e))

(***************************************************************************)
(* SecurityAnalyzer                                                        *)
(***************************************************************************)

GENERAL == <<"g", "e", "n", "e", "r", "a", "l">>

\* SecurityAnalyzer.__init__
SecurityAnalyzer(code, language) ==
    [code |-> code, language |-> Lower(language), lines |-> SplitLines(code)]

\* The rule set analyze() builds: the language's categories, then the general
\* ones merged in with dict.update.
PatternsToCheck(self) ==
    LET own == IF self.language \in DOMAIN SECURITY_PATTERNS
               THEN DictUpdate(<<>>, SECURITY_PATTERNS[self.language])
               ELSE <<>>
    IN  DictUpdate(own, SECURITY_PATTERNS[GENERAL])

\* A severity mapping without the high tier.
DetermineSeverityNoHigh(category, pattern) ==
    IF category \in {"sql_injection", "command_injection", "unsafe_deserialization"}
    THEN "critical"
    ELSE IF category \in {"weak_crypto", "path_traversal"} THEN "medium"
    ELSE "low"

\* SecurityAnalyzer._determine_severity
DetermineSeverity(category, pattern) ==
    LET critical_categories == {"sql_injection", "command_injection", "unsafe_deserialization"}
        high_categories     == {"xss", "eval", "prototype_pollution", "hardcoded_secrets"}
        medium_categories   == {"weak_crypto", "path_traversal"}
    IN  IF category \in critical_categories THEN "critical"
        ELSE IF category \in high_categories THEN "high"
        ELSE IF category \in medium_categories THEN "medium"
        ELSE "low"

\* A comment test that does not know the "*" prefix.
SkipCommentNoStar(line) ==
    StartsWithAny(Strip(line), {<<"#">>, <<"/", "/">>, <<"/", "*">>})

\* The comment test of analyze(): the stripped line starts with a prefix.
SkipComment(line) ==
    StartsWithAny(Strip(line), {<<"#">>, <<"/", "/">>, <<"/", "*">>, <<"*">>})

\* The issue record analyze() builds for a match of a rule on line i.
MakeIssue(i, line, category, rule) ==
    [line     |-> i,
     category |-> category,
     message  |-> rule.message,
     severity |-> DetermineSeverity(category, rule.pattern),
     code     |-> Prefix(Strip(line), 80)]

\* A scan that stops at the first comment line instead of skipping it.
RECURSIVE ScanLinesBreak(_, _, _, _)
ScanLinesBreak(lines, category, rule, i) ==
    IF i > Len(lines) THEN <<>>
    ELSE IF SkipComment(lines[i]) THEN <<>>
    ELSE IF SecSearch(rule.pattern, lines[i])
         THEN <<MakeIssue(i, lines[i], category, rule)>>
              \o ScanLinesBreak(lines, category, rule, i + 1)
         ELSE ScanLinesBreak(lines, category, rule, i + 1)

\* The innermost loop of analyze(): one rule over lines i.., in order.
RECURSIVE ScanLines(_, _, _, _)
ScanLines(lines, category, rule, i) ==
    IF i > Len(lines) THEN <<>>
    ELSE IF SkipComment(lines[i]) THEN ScanLines(lines, category, rule, i + 1)
    ELSE IF SecSearch(rule.pattern, lines[i])
         THEN <<MakeIssue(i, lines[i], category, rule)>>
              \o ScanLines(lines, category, rule, i + 1)
         ELSE ScanLines(lines, category, rule, i + 1)

\* The loop over a category's rules: category_issues.
RECURSIVE ScanRules(_, _, _, _)
ScanRules(lines, category, patterns, k) ==
    IF k > Len(patterns) THEN <<>>
    ELSE ScanLines(lines, category, patterns[k], 1)
         \o ScanRules(lines, category, patterns, k + 1)

\* A tally that counts only the first issue of a category.
TallyFirst(counts, issues) ==
    IF Len(issues) = 0 THEN counts
    ELSE [counts EXCEPT ![issues[1].severity] = @ + 1]

\* results["severity_counts"][severity] += 1 for each issue in turn.
RECURSIVE Tally(_, _)
Tally(counts, issues) ==
    IF Len(issues) = 0 THEN counts
    ELSE Tally([counts EXCEPT ![issues[1].severity] = @ + 1], Tail(issues))

\* The empty results record analyze() starts from.
EmptyResults ==
    [issues          |-> <<>>,
     severity_counts |-> [critical |-> 0, high |-> 0, medium |-> 0, low |-> 0],
     categories      |-> <<>>]

\* A pass that records its category whether it has issues or not.
AddCategoryAlways(results, category, category_issues) ==
    [issues          |-> results.issues \o category_issues,
     severity_counts |-> Tally(results.severity_counts, category_issues),
     categories      |-> DictSet(results.categories, category, Len(category_issues))]

\* The end of one category's pass: its issues are appended and counted, and
\* the category is recorded when it has any.
AddCategory(results, category, category_issues) ==
    [issues          |-> results.issues \o category_issues,
     severity_counts |-> Tally(results.severity_counts, category_issues),
     categories      |-> IF Len(category_issues) > 0
                         THEN DictSet(results.categories, category, Len(category_issues))
                         ELSE results.categories]

\* The loop over the categories of patterns_to_check, from entry c on.
RECURSIVE ScanCategories(_, _, _, _)
ScanCategories(lines, patterns_to_check, c, results) ==
    IF c > Len(patterns_to_check) THEN results
    ELSE ScanCategories(lines, patterns_to_check, c + 1,
             AddCategory(results, patterns_to_check[c].key,
                 ScanRules(lines, patterns_to_check[c].key, patterns_to_check[c].value, 1)))

\* sum(count * weights.get(severity, 1)) over the items of a counts dict
RECURSIVE WeightedSum(_, _, _)
WeightedSum(counts, weights, keys) ==
    IF keys = {} THEN 0
    ELSE LET k == CHOOSE key \in keys : TRUE
         IN  counts[k] * (IF k \in DOMAIN weights THEN weights[k] ELSE 1)
             + WeightedSum(counts, weights, keys \ {k})

\* The weights of _calculate_risk_score.
RiskWeights == [critical |-> 25, high |-> 15, medium |-> 5, low |-> 2]

\* A risk score that is not clamped.
RiskScoreUnclamped(results) ==
    WeightedSum(results.severity_counts, RiskWeights, DOMAIN results.severity_counts)

\* SecurityAnalyzer._calculate_risk_score
CalculateRiskScore(results) ==
    Min(WeightedSum(results.severity_counts, RiskWeights, DOMAIN results.severity_counts), 100)

\* results["total_issues"] = len(results["issues"])
WithTotalIssues(results) == [total_issues |-> Len(results.issues)] @@ results

\* results["risk_score"] = self._calculate_risk_score(results)
WithRiskScore(results) == [risk_score |-> CalculateRiskScore(results)] @@ results

\* SecurityAnalyzer.analyze
SecurityAnalyze(self) ==
    WithRiskScore(WithTotalIssues(
        ScanCategories(self.lines, PatternsToCheck(self), 1, EmptyResults)))

(***************************************************************************)
(* The regular expressions of QualityAnalyzer                              *)
(***************************************************************************)

\* _calculate_metrics, with re.MULTILINE: ^\s*(def|function|func)\s+\w+
FUNCTION_COUNT_RE ==
    BOL \o Star(In(WHITESPACE)) \o Alt(<<Str(<<"d", "e", "f">>), Str(<<"f", "u", "n", "c", "t", "i", "o", "n">>), Str(<<"f", "u", "n", "c">>)>>) \o Plus(In(WHITESPACE)) \o Plus(In(WORD))

\* _calculate_metrics, with re.MULTILINE: ^\s*class\s+\w+
CLASS_COUNT_RE ==
    BOL \o Star(In(WHITESPACE)) \o Str(<<"c", "l", "a", "s", "s">>) \o Plus(In(WHITESPACE)) \o Plus(In(WORD))

\* _check_naming: def\s+([a-zA-Z_][a-zA-Z0-9_]*)\s*\(
PY_FUNCTION_NAME_RE ==
    Str(<<"d", "e", "f">>) \o Plus(In(WHITESPACE)) \o (In(ASCII_LOWER \cup ASCII_UPPER \cup {"_"}) \o Star(In(ASCII_LOWER \cup ASCII_UPPER \cup DIGITS \cup {"_"}))) \o Star(In(WHITESPACE)) \o Str(<<"(">>)

\* _check_naming: class\s+([a-zA-Z_][a-zA-Z0-9_]*)
PY_CLASS_NAME_RE ==
    Str(<<"c", "l", "a", "s", "s">>) \o Plus(In(WHITESPACE)) \o (In(ASCII_LOWER \cup ASCII_UPPER \cup {"_"}) \o Star(In(ASCII_LOWER \cup ASCII_UPPER \cup DIGITS \cup {"_"})))

\* _check_naming: \b([a-zA-Z])\s*=\s*(?!.*for)
PY_VARIABLE_RE ==
    WB \o (In(ASCII_LOWER \cup ASCII_UPPER)) \o Star(In(WHITESPACE)) \o Str(<<"=">>) \o Star(In(WHITESPACE)) \o NotAhead(Star(ANY) \o Str(<<"f", "o", "r">>))

\* _check_naming: function\s+([a-zA-Z_$][a-zA-Z0-9_$]*)
JS_FUNCTION_NAME_RE ==
    Str(<<"f", "u", "n", "c", "t", "i", "o", "n">>) \o Plus(In(WHITESPACE)) \o (In(ASCII_LOWER \cup ASCII_UPPER \cup {"_", "$"}) \o Star(In(ASCII_LOWER \cup ASCII_UPPER \cup DIGITS \cup {"_", "$"})))

\* _check_documentation: def\s+(\w+)\s*\([^)]*\):
DOC_FUNCTION_RE ==
    Str(<<"d", "e", "f">>) \o Plus(In(WHITESPACE)) \o (Plus(In(WORD))) \o Star(In(WHITESPACE)) \o Str(<<"(">>) \o Star(NotIn({")"})) \o Str(<<")", ":">>)

\* _check_documentation: class\s+(\w+)[^:]*:
DOC_CLASS_RE ==
    Str(<<"c", "l", "a", "s", "s">>) \o Plus(In(WHITESPACE)) \o (Plus(In(WORD))) \o Star(NotIn({":"})) \o Str(<<":">>)

\* _check_documentation, applied with re.match: \s*\n\s*("""|\'\'\')
DOCSTRING_NEXT_RE ==
    Star(In(WHITESPACE)) \o Str(<<"\n">>) \o Star(In(WHITESPACE)) \o Alt(<<Str(<<"\"", "\"", "\"">>), Str(<<"'", "'", "'">>)>>)

\* _detect_code_smells, applied with re.match: ^\s*(def|function)\s+(\w+)
SMELL_FUNCTION_START_RE ==
    BOS \o Star(In(WHITESPACE)) \o Alt(<<Str(<<"d", "e", "f">>), Str(<<"f", "u", "n", "c", "t", "i", "o", "n">>)>>) \o Plus(In(WHITESPACE)) \o (Plus(In(WORD)))

\* _detect_code_smells: (def|function)\s+(\w+)
SMELL_FUNCTION_NAME_RE ==
    Alt(<<Str(<<"d", "e", "f">>), Str(<<"f", "u", "n", "c", "t", "i", "o", "n">>)>>) \o Plus(In(WHITESPACE)) \o (Plus(In(WORD)))

\* _detect_code_smells: def\s+(\w+)\s*\(([^)]+)\)
SMELL_PARAMETERS_RE ==
    Str(<<"d", "e", "f">>) \o Plus(In(WHITESPACE)) \o (Plus(In(WORD))) \o Star(In(WHITESPACE)) \o Str(<<"(">>) \o (Plus(NotIn({")"}))) \o Str(<<")">>)

\* _detect_code_smells: (?<![a-zA-Z_])\d{2,}(?![a-zA-Z_\d])
MAGIC_NUMBER_RE ==
    NotBehind(ASCII_LOWER \cup ASCII_UPPER \cup {"_"}) \o Rep(In(DIGITS), 2, -1) \o NotAhead(In(ASCII_LOWER \cup ASCII_UPPER \cup DIGITS \cup {"_"}))

\* _check_maintainability, with re.IGNORECASE: #\s*(TODO|FIXME|HACK|XXX)
TODO_RE ==
    Str(<<"#">>) \o Star(In(WHITESPACE)) \o Alt(<<Str(<<"T", "O", "D", "O">>), Str(<<"F", "I", "X", "M", "E">>), Str(<<"H", "A", "C", "K">>), Str(<<"X", "X", "X">>)>>)

\* _check_maintainability: (def |class |import |return |if |for |while )
COMMENTED_CODE_RE ==
    Alt(<<Str(<<"d", "e", "f", " ">>), Str(<<"c", "l", "a", "s", "s", " ">>), Str(<<"i", "m", "p", "o", "r", "t", " ">>), Str(<<"r", "e", "t", "u", "r", "n", " ">>), Str(<<"i", "f", " ">>), Str(<<"f", "o", "r", " ">>), Str(<<"w", "h", "i", "l", "e", " ">>)>>)

\* _check_maintainability: (?:from\s+\S+\s+)?import\s+(\w+)
IMPORT_RE ==
    OptGroup(Str(<<"f", "r", "o", "m">>) \o Plus(In(WHITESPACE)) \o Plus(NotIn(WHITESPACE)) \o Plus(In(WHITESPACE))) \o Str(<<"i", "m", "p", "o", "r", "t">>) \o Plus(In(WHITESPACE)) \o (Plus(In(WORD)))

\* the part of the def patterns before the name group: def\s+
DEF_PREFIX_RE ==
    Str(<<"d", "e", "f">>) \o Plus(In(WHITESPACE))

\* the part of the class patterns before the name group: class\s+
CLASS_PREFIX_RE ==
    Str(<<"c", "l", "a", "s", "s">>) \o Plus(In(WHITESPACE))

\* the part of the function pattern before the name group: function\s+
FUNCTION_PREFIX_RE ==
    Str(<<"f", "u", "n", "c", "t", "i", "o", "n">>) \o Plus(In(WHITESPACE))

\* the part of the function-start pattern before the name group: (def|function)\s+
SMELL_NAME_PREFIX_RE ==
    Alt(<<Str(<<"d", "e", "f">>), Str(<<"f", "u", "n", "c", "t", "i", "o", "n">>)>>) \o Plus(In(WHITESPACE))

\* the part of the parameter pattern before the parameter group: def\s+(\w+)\s*\(
SMELL_PARAMETERS_PREFIX_RE ==
    Str(<<"d", "e", "f">>) \o Plus(In(WHITESPACE)) \o (Plus(In(WORD))) \o Star(In(WHITESPACE)) \o Str(<<"(">>)
(***************************************************************************)
(* QualityAnalyzer                                                         *)
(*                                                                         *)
(* A float the analyzer computes as a quotient of two counts is kept as    *)
(* the pair [num, den]; its comparisons with 0.1, 0.5, 0.8 and 30 are made *)
(* on the integers.  For the counts of the model the float quotient stands *)
(* on the same side of the constant as the exact one, and equals the       *)
(* constant's float when the exact quotient equals the constant.           *)
(***************************************************************************)

Ratio(num, den) == [num |-> num, den |-> den]

\* r < a / b, for b > 0
RatioLess(r, a, b) == r.num * b < a * r.den

\* r > a / b, for b > 0
RatioGreater(r, a, b) == r.num * b > a * r.den

\* round(total / n, 1) in tenths, for n > 0.  A tie is rounded to the even
\* tenth: with at most four lines a tie is a multiple of 1/4, which the float
\* holds exactly.
RoundTenths(total, n) ==
    LET q == (10 * total) \div n
        r == (10 * total) % n
    IN  IF 2 * r < n THEN q
        ELSE IF 2 * r > n THEN q + 1
        ELSE IF q % 2 = 0 THEN q ELSE q + 1

\* QualityAnalyzer.__init__
QualityAnalyzer(code, language) ==
    [code |-> code, language |-> Lower(language), lines |-> SplitLines(code)]

TRIPLE_DOUBLE == <<"\"", "\"", "\"">>

TRIPLE_SINGLE == <<"'", "'", "'">>

\* QualityAnalyzer._is_comment
IsComment(line) ==
    StartsWithAny(Strip(line),
                  {<<"#">>, <<"/", "/">>, <<"/", "*">>, <<"*">>, TRIPLE_DOUBLE, TRIPLE_SINGLE})

\* A count of the lines with text, comments among them.
CodeLinesOfNonBlank(lines) == Cardinality({i \in 1..Len(lines) : Strip(lines[i]) # <<>>})

\* sum(1 for line in self.lines if line.strip() and not self._is_comment(line))
CodeLines(lines) ==
    Cardinality({i \in 1..Len(lines) : Strip(lines[i]) # <<>> /\ ~IsComment(lines[i])})

\* sum(1 for line in self.lines if not line.strip())
BlankLines(lines) == Cardinality({i \in 1..Len(lines) : Strip(lines[i]) = <<>>})

\* sum(1 for line in self.lines if self._is_comment(line))
CommentLines(lines) == Cardinality({i \in 1..Len(lines) : IsComment(lines[i])})

\* len(non_empty_lines)
NonEmptyLines(lines) == Cardinality({i \in 1..Len(lines) : Strip(lines[i]) # <<>>})

\* sum(len(line) for line in non_empty_lines)
RECURSIVE NonEmptyLength(_, _)
NonEmptyLength(lines, i) ==
    IF i > Len(lines) THEN 0
    ELSE (IF Strip(lines[i]) # <<>> THEN Len(lines[i]) ELSE 0) + NonEmptyLength(lines, i + 1)

\* The dict _calculate_metrics returns, from its counts.
MetricsOf(total_lines, code_lines, blank_lines, comment_lines, non_empty_length, non_empty_lines, function_count, class_count) ==
    [total_lines         |-> total_lines,
     code_lines          |-> code_lines,
     blank_lines         |-> blank_lines,
     comment_lines       |-> comment_lines,
     comment_ratio       |-> Ratio(comment_lines, Max(code_lines, 1)),
     average_line_length |-> RoundTenths(non_empty_length, Max(non_empty_lines, 1)),
     function_count      |-> function_count,
     class_count         |-> class_count,
     lines_per_function  |-> Ratio(code_lines, Max(function_count, 1))]

\* QualityAnalyzer._calculate_metrics
CalculateMetrics(self) ==
    MetricsOf(Len(self.lines), CodeLines(self.lines), BlankLines(self.lines),
              CommentLines(self.lines), NonEmptyLength(self.lines, 1),
              NonEmptyLines(self.lines),
              Len(FindIter(FUNCTION_COUNT_RE, self.code, FALSE)),
              Len(FindIter(CLASS_COUNT_RE, self.code, FALSE)))

\* str.islower / str.isupper: a cased character, and no cased character of
\* the other case.
IsLower(s) ==
    /\ \E i \in 1..Len(s) : s[i] \in ASCII_LOWER
    /\ \A i \in 1..Len(s) : s[i] \notin ASCII_UPPER

IsUpper(s) ==
    /\ \E i \in 1..Len(s) : s[i] \in ASCII_UPPER
    /\ \A i \in 1..Len(s) : s[i] \notin ASCII_LOWER

\* The longest run of characters of class cs that starts at offset q.
RunAt(s, q, cs) == Slice(s, q, q + RunLen(In(cs)[1], s, q, FALSE))

\* match.group(1) of a pattern whose name group follows a prefix: the run of
\* name characters after the prefix.
NameAfter(s, m, prefix, cs) == RunAt(s, MatchEnd(prefix, s, m[1], FALSE), cs)

PYTHON == <<"p", "y", "t", "h", "o", "n">>

JAVASCRIPT == <<"j", "a", "v", "a", "s", "c", "r", "i", "p", "t">>

TYPESCRIPT == <<"t", "y", "p", "e", "s", "c", "r", "i", "p", "t">>

\* A naming issue; the message f"{kind} '{name}' {advice}" is kept as its
\* three parts.
NamingIssue(line, name, type, kind, advice) ==
    [line |-> line, name |-> name, type |-> type,
     message |-> <<kind, name, advice>>]

\* The body of the loop over Python function names.
PyFunctionIssue(line, name) ==
    IF /\ ~StartsWith(name, <<"_">>)
       /\ ~IsLower(name)
       /\ name # Lower(name)
       /\ ~IsUpper(name)
    THEN <<NamingIssue(line, name, "function", "Function", "should use snake_case")>>
    ELSE <<>>

RECURSIVE PyFunctionIssues(_, _, _)
PyFunctionIssues(code, ms, i) ==
    IF i > Len(ms) THEN <<>>
    ELSE PyFunctionIssue(LineOfOffset(code, ms[i][1]),
                         NameAfter(code, ms[i], DEF_PREFIX_RE, WORD))
         \o PyFunctionIssues(code, ms, i + 1)

\* The body of the loop over Python class names.
PyClassIssue(line, name) ==
    IF name[1] \notin ASCII_UPPER
    THEN <<NamingIssue(line, name, "class", "Class", "should use PascalCase")>>
    ELSE <<>>

RECURSIVE PyClassIssues(_, _, _)
PyClassIssues(code, ms, i) ==
    IF i > Len(ms) THEN <<>>
    ELSE PyClassIssue(LineOfOffset(code, ms[i][1]),
                      NameAfter(code, ms[i], CLASS_PREFIX_RE, WORD))
         \o PyClassIssues(code, ms, i + 1)

\* The body of the loop over single-letter assignments.
PyVariableIssue(line, name) ==
    IF name \notin {<<"i">>, <<"j">>, <<"k">>, <<"x">>, <<"y">>, <<"z">>, <<"_">>}
    THEN <<NamingIssue(line, name, "variable", "Single-letter variable",
                       "- use descriptive name")>>
    ELSE <<>>

RECURSIVE PyVariableIssues(_, _, _)
PyVariableIssues(code, ms, i) ==
    IF i > Len(ms) THEN <<>>
    ELSE PyVariableIssue(LineOfOffset(code, ms[i][1]), Slice(code, ms[i][1], ms[i][1] + 1))
         \o PyVariableIssues(code, ms, i + 1)

\* The body of the loop over JavaScript function names.
JsFunctionIssue(line, name) ==
    IF name[1] \in ASCII_UPPER /\ ~IsUpper(name)
    THEN <<NamingIssue(line, name, "function", "Function", "should use camelCase")>>
    ELSE <<>>

RECURSIVE JsFunctionIssues(_, _, _)
JsFunctionIssues(code, ms, i) ==
    IF i > Len(ms) THEN <<>>
    ELSE JsFunctionIssue(LineOfOffset(code, ms[i][1]),
                         NameAfter(code, ms[i], FUNCTION_PREFIX_RE, WORD \cup {"$"}))
         \o JsFunctionIssues(code, ms, i + 1)

\* QualityAnalyzer._check_naming
CheckNaming(self) ==
    IF self.language = PYTHON
    THEN PyFunctionIssues(self.code, FindIter(PY_FUNCTION_NAME_RE, self.code, FALSE), 1)
         \o PyClassIssues(self.code, FindIter(PY_CLASS_NAME_RE, self.code, FALSE), 1)
         \o PyVariableIssues(self.code, FindIter(PY_VARIABLE_RE, self.code, FALSE), 1)
    ELSE IF self.language \in {JAVASCRIPT, TYPESCRIPT}
    THEN JsFunctionIssues(self.code, FindIter(JS_FUNCTION_NAME_RE, self.code, FALSE), 1)
    ELSE <<>>

\* An entry of documentation["undocumented"].
Undocumented(name, type, line) == [name |-> name, type |-> type, line |-> line]

\* Whether a docstring follows the match that ends at offset pos:
\* re.match(DOCSTRING_NEXT_RE, self.code[pos : pos + 100])
DocstringFollows(code, pos) ==
    ReMatch(DOCSTRING_NEXT_RE, Slice(code, pos, Min(pos + 100, Len(code))), FALSE)

\* The matches of a def or class pattern that a docstring follows.
Documented(code, ms) == {i \in 1..Len(ms) : DocstringFollows(code, ms[i][2])}

\* The undocumented entries of the matches ms, in order.
RECURSIVE UndocumentedOf(_, _, _, _, _, _)
UndocumentedOf(code, ms, documented, prefix, type, i) ==
    IF i > Len(ms) THEN <<>>
    ELSE (IF i \in documented THEN <<>>
          ELSE <<Undocumented(NameAfter(code, ms[i], prefix, WORD), type,
                              LineOfOffset(code, ms[i][1]))>>)
         \o UndocumentedOf(code, ms, documented, prefix, type, i + 1)

\* The dict _check_documentation returns, from its counts.
DocumentationOf(has_module_doc, functions_documented, functions_total, classes_documented, classes_total, undocumented) ==
    [has_module_doc       |-> has_module_doc,
     functions_documented |-> functions_documented,
     functions_total      |-> functions_total,
     classes_documented   |-> classes_documented,
     classes_total        |-> classes_total,
     undocumented         |-> undocumented,
     coverage             |-> Ratio(functions_documented + classes_documented,
                                    Max(functions_total + classes_total, 1))]

\* stripped_code.startswith('"""') or stripped_code.startswith("'''")
HasModuleDoc(code) ==
    StartsWith(LStrip(code), TRIPLE_DOUBLE) \/ StartsWith(LStrip(code), TRIPLE_SINGLE)

\* The Python branch of _check_documentation, from the matches of the def and
\* the class pattern and the documented ones among them.
PyDocumentation(code, fs, fdoc, cs, cdoc) ==
    DocumentationOf(HasModuleDoc(code),
                    Cardinality(fdoc), Len(fs), Cardinality(cdoc), Len(cs),
                    UndocumentedOf(code, fs, fdoc, DEF_PREFIX_RE, "function", 1)
                    \o UndocumentedOf(code, cs, cdoc, CLASS_PREFIX_RE, "class", 1))

PyDocumentationOf(code, fs, cs) ==
    PyDocumentation(code, fs, Documented(code, fs), cs, Documented(code, cs))

\* QualityAnalyzer._check_documentation
CheckDocumentation(self) ==
    IF self.language = PYTHON
    THEN PyDocumentationOf(self.code,
                           FindIter(DOC_FUNCTION_RE, self.code, FALSE),
                           FindIter(DOC_CLASS_RE, self.code, FALSE))
    ELSE DocumentationOf(FALSE, 0, 0, 0, 0, <<>>)

\* A code smell; the message is kept as the parts of its f-string.
Smell(line, type, message, severity) ==
    [line |-> line, type |-> type, message |-> message, severity |-> severity]

UNKNOWN_NAME == <<"u", "n", "k", "n", "o", "w", "n">>

\* match.group(2) if match else "unknown", for match = re.search(...)
FunctionNameAt(line, m) ==
    IF m[1] = -1 THEN UNKNOWN_NAME ELSE NameAfter(line, m, SMELL_NAME_PREFIX_RE, WORD)

\* The smell the long-method loop appends when a function ends.
LongMethod(in_function, function_start, function_name, function_lines) ==
    IF in_function /\ function_lines > 30
    THEN <<Smell(function_start, "long_method",
                 <<"Long method '", function_name, "' (", function_lines, " lines)">>,
                 "medium")>>
    ELSE <<>>

\* The long-method loop of _detect_code_smells from line i on.
RECURSIVE LongMethods(_, _, _, _, _, _)
LongMethods(lines, i, in_function, function_start, function_name, function_lines) ==
    IF i > Len(lines) THEN <<>>
    ELSE IF ReMatch(SMELL_FUNCTION_START_RE, lines[i], FALSE)
    THEN LongMethod(in_function, function_start, function_name, function_lines)
         \o LongMethods(lines, i + 1, TRUE, i,
                FunctionNameAt(lines[i], SearchFrom(SMELL_FUNCTION_NAME_RE, lines[i], 0, FALSE)),
                0)
    ELSE IF in_function
    THEN LongMethods(lines, i + 1, TRUE, function_start, function_name, function_lines + 1)
    ELSE LongMethods(lines, i + 1, FALSE, function_start, function_name, function_lines)

\* len(s.split(","))
SplitCount(s) == Cardinality({i \in 1..Len(s) : s[i] = ","}) + 1

\* The body of the too-many-parameters loop.
TooManyParameters(line, name, params) ==
    IF params > 5
    THEN <<Smell(line, "too_many_parameters",
                 <<"Function '", name, "' has too many parameters (", params, ")">>,
                 "medium")>>
    ELSE <<>>

RECURSIVE ParameterSmells(_, _, _)
ParameterSmells(code, ms, i) ==
    IF i > Len(ms) THEN <<>>
    ELSE TooManyParameters(
             LineOfOffset(code, ms[i][1]),
             NameAfter(code, ms[i], DEF_PREFIX_RE, WORD),
             SplitCount(Slice(code, MatchEnd(SMELL_PARAMETERS_PREFIX_RE, code, ms[i][1], FALSE),
                              ms[i][2] - 1)))
         \o ParameterSmells(code, ms, i + 1)

\* (len(line) - len(line.lstrip())) // 4
IndentLevel(line) == (Len(line) - Len(LStrip(line))) \div 4

\* max_indent after the nesting loop.
MaxIndent(lines) ==
    MaxOf({0} \cup {IndentLevel(lines[i]) : i \in {n \in 1..Len(lines) : Strip(lines[n]) # <<>>}})

\* max_indent_line after the nesting loop: the first line of the deepest level.
MaxIndentLine(lines, max_indent) ==
    IF max_indent = 0 THEN 0
    ELSE MinOf({i \in 1..Len(lines) :
                   Strip(lines[i]) # <<>> /\ IndentLevel(lines[i]) = max_indent})

DeepNesting(lines, max_indent) ==
    IF max_indent > 4
    THEN <<Smell(MaxIndentLine(lines, max_indent), "deep_nesting",
                 <<"Deeply nested code (", max_indent, " levels)">>, "high")>>
    ELSE <<>>

\* The lines Counter counts: the first occurrence of each stripped line of
\* more than 20 characters, and how often it occurs.
CountedLines(lines) ==
    {i \in 1..Len(lines) :
        /\ Len(Strip(lines[i])) > 20
        /\ \A j \in 1..(i - 1) : Strip(lines[j]) # Strip(lines[i])}

LineCount(lines, i) ==
    Cardinality({j \in 1..Len(lines) : Strip(lines[j]) = Strip(lines[i])})

\* How many counted lines most_common puts before line i: those counted more
\* often, and those counted as often that were seen earlier.
CommonRank(lines, counted, i) ==
    Cardinality({j \in counted :
                    \/ LineCount(lines, j) > LineCount(lines, i)
                    \/ LineCount(lines, j) = LineCount(lines, i) /\ j < i})

DuplicateCode(content, count) ==
    IF count >= 3
    THEN <<Smell(0, "duplicate_code",
                 <<"Duplicated line appears ", count, " times: '", Prefix(content, 40), "...'">>,
                 "low")>>
    ELSE <<>>

\* The loop over line_counts.most_common(5), from rank r on.
RECURSIVE DuplicateSmells(_, _, _), DuplicateSmellAt(_, _, _, _)
DuplicateSmells(lines, counted, r) ==
    IF r >= 5 \/ r >= Cardinality(counted) THEN <<>>
    ELSE DuplicateSmellAt(lines, counted, r,
                          CHOOSE i \in counted : CommonRank(lines, counted, i) = r)

DuplicateSmellAt(lines, counted, r, i) ==
    DuplicateCode(Strip(lines[i]), LineCount(lines, i))
    \o DuplicateSmells(lines, counted, r + 1)

\* The (line, number) pairs one line adds to magic_numbers.
RECURSIVE MagicOnLine(_, _, _, _)
MagicOnLine(i, line, ms, k) ==
    IF k > Len(ms) THEN <<>>
    ELSE (IF Slice(line, ms[k][1], ms[k][2])
                 \in {<<"1", "0">>, <<"1", "0", "0">>, <<"1", "0", "0", "0">>}
          THEN <<>>
          ELSE <<<<i, Slice(line, ms[k][1], ms[k][2])>>>>)
         \o MagicOnLine(i, line, ms, k + 1)

\* magic_numbers after the loop over the lines, from line i on.
RECURSIVE MagicNumbers(_, _)
MagicNumbers(lines, i) ==
    IF i > Len(lines) THEN <<>>
    ELSE (IF IsComment(lines[i]) THEN <<>>
          ELSE MagicOnLine(i, lines[i], FindIter(MAGIC_NUMBER_RE, lines[i], FALSE), 1))
         \o MagicNumbers(lines, i + 1)

MagicSmell(magic_numbers) ==
    IF Len(magic_numbers) > 3
    THEN <<Smell(magic_numbers[1][1], "magic_numbers",
                 <<"Found ", Len(magic_numbers),
                   " magic numbers - consider using named constants">>,
                 "low")>>
    ELSE <<>>

\* QualityAnalyzer._detect_code_smells
DetectCodeSmells(self) ==
    LongMethods(self.lines, 1, FALSE, 0, <<>>, 0)
    \o ParameterSmells(self.code, FindIter(SMELL_PARAMETERS_RE, self.code, FALSE), 1)
    \o DeepNesting(self.lines, MaxIndent(self.lines))
    \o DuplicateSmells(self.lines, CountedLines(self.lines), 0)
    \o MagicSmell(MagicNumbers(self.lines, 1))

\* The technical-debt issue of _check_maintainability.
TechnicalDebt(todo_count) ==
    IF todo_count > 0
    THEN <<[type |-> "technical_debt",
            message |-> <<"Found ", todo_count, " TODO/FIXME comments">>,
            severity |-> "info"]>>
    ELSE <<>>

\* commented_code after the loop over the lines.
CommentedCode(lines) ==
    Cardinality({i \in 1..Len(lines) :
                    /\ StartsWith(Strip(lines[i]), <<"#">>)
                    /\ ReSearch(COMMENTED_CODE_RE, Strip(lines[i]), FALSE)})

CommentedCodeIssue(commented_code) ==
    IF commented_code > 2
    THEN <<[type |-> "commented_code",
            message |-> <<"Found ", commented_code, " lines of commented-out code">>,
            severity |-> "low"]>>
    ELSE <<>>

\* match.group(1) of the import pattern: the word the match ends with, which
\* follows the last whitespace of the match.
LastWord(s, end) == Slice(s, MaxOf({j \in 1..end : s[j] \in WHITESPACE}), end)

\* len(re.findall(rf"\b{imp}\b", self.code))
UsageCount(code, imp) == Len(FindIter(WB \o Str(imp) \o WB, code, FALSE))

UnusedImport(code, imp) ==
    IF UsageCount(code, imp) = 1 THEN <<<<"Unused import: ", imp>>>> ELSE <<>>

\* The loop over the imports, from match i on.
RECURSIVE UnusedImports(_, _, _)
UnusedImports(code, ms, i) ==
    IF i > Len(ms) THEN <<>>
    ELSE UnusedImport(code, LastWord(code, ms[i][2])) \o UnusedImports(code, ms, i + 1)

\* QualityAnalyzer._check_maintainability
CheckMaintainability(self) ==
    [issues      |-> TechnicalDebt(Len(FindIter(TODO_RE, self.code, TRUE)))
                     \o CommentedCodeIssue(CommentedCode(self.lines)),
     suggestions |-> UnusedImports(self.code, FindIter(IMPORT_RE, self.code, FALSE), 1)]

\* The loop of _calculate_score over the code smells: the sum it deducts.
RECURSIVE SmellDeduction(_, _)
SmellDeduction(code_smells, i) ==
    IF i > Len(code_smells) THEN 0
    ELSE (IF code_smells[i].severity = "high" THEN 8
          ELSE IF code_smells[i].severity = "medium" THEN 5
          ELSE 2)
         + SmellDeduction(code_smells, i + 1)

\* The deductions without the cap on the naming issues.
ScoreNamingUncapped(results) ==
    100
    - (IF RatioLess(results.metrics.comment_ratio, 1, 10) THEN 10 ELSE 0)
    - (IF results.metrics.average_line_length > 800 THEN 5 ELSE 0)
    - (IF RatioGreater(results.metrics.lines_per_function, 30, 1) THEN 10 ELSE 0)
    - Len(results.naming_issues) * 2
    - (IF ~results.documentation.has_module_doc THEN 5 ELSE 0)
    - (IF RatioLess(results.documentation.coverage, 1, 2) THEN 10
       ELSE IF RatioLess(results.documentation.coverage, 4, 5) THEN 5
       ELSE 0)
    - SmellDeduction(results.code_smells, 1)

\* score after the deductions of _calculate_score, before the clamp.
ScoreBeforeClamp(results) ==
    100
    - (IF RatioLess(results.metrics.comment_ratio, 1, 10) THEN 10 ELSE 0)
    - (IF results.metrics.average_line_length > 800 THEN 5 ELSE 0)
    - (IF RatioGreater(results.metrics.lines_per_function, 30, 1) THEN 10 ELSE 0)
    - Min(Len(results.naming_issues) * 2, 15)
    - (IF ~results.documentation.has_module_doc THEN 5 ELSE 0)
    - (IF RatioLess(results.documentation.coverage, 1, 2) THEN 10
       ELSE IF RatioLess(results.documentation.coverage, 4, 5) THEN 5
       ELSE 0)
    - SmellDeduction(results.code_smells, 1)

\* QualityAnalyzer._calculate_score
CalculateScore(results) == Max(0, Min(100, ScoreBeforeClamp(results)))

\* A grading whose A starts above 90.
GetGradeAbove(score) ==
    IF score > 90 THEN "A"
    ELSE IF score >= 80 THEN "B"
    ELSE IF score >= 70 THEN "C"
    ELSE IF score >= 60 THEN "D"
    ELSE "F"

\* QualityAnalyzer._get_grade
GetGrade(score) ==
    IF score >= 90 THEN "A"
    ELSE IF score >= 80 THEN "B"
    ELSE IF score >= 70 THEN "C"
    ELSE IF score >= 60 THEN "D"
    ELSE "F"

\* The results dict analyze() builds before it scores it.
QualityResults(self) ==
    [score           |-> 0,
     issues          |-> <<>>,
     metrics         |-> CalculateMetrics(self),
     naming_issues   |-> CheckNaming(self),
     documentation   |-> CheckDocumentation(self),
     code_smells     |-> DetectCodeSmells(self),
     maintainability |-> CheckMaintainability(self)]

\* results["score"] = self._calculate_score(results)
WithScore(results) == [results EXCEPT !.score = CalculateScore(results)]

\* results["grade"] = self._get_grade(results["score"])
WithGrade(results) == [grade |-> GetGrade(results.score)] @@ results

\* QualityAnalyzer.analyze
QualityAnalyze(self) == WithGrade(WithScore(QualityResults(self)))

(***************************************************************************)
(* The documents the quality model is run on: texts built from these lines *)
(***************************************************************************)

\* (the empty line)
QUAL_BLANK == <<>>

\* """m"""
QUAL_MODULE_DOC == <<"\"", "\"", "\"", "m", "\"", "\"", "\"">>

\* def f(a):
QUAL_DEF == <<"d", "e", "f", " ", "f", "(", "a", ")", ":">>

\*     '''d'''
QUAL_DOCSTRING == <<" ", " ", " ", " ", "'", "'", "'", "d", "'", "'", "'">>

\* def Bad(a, b, c, d, e, g): pass
QUAL_DEF_BAD == <<"d", "e", "f", " ", "B", "a", "d", "(", "a", ",", " ", "b", ",", " ", "c", ",", " ", "d", ",", " ", "e", ",", " ", "g", ")", ":", " ", "p", "a", "s", "s">>

\* class c:
QUAL_CLASS == <<"c", "l", "a", "s", "s", " ", "c", ":">>

\* # def g():
QUAL_COMMENT_DEF == <<"#", " ", "d", "e", "f", " ", "g", "(", ")", ":">>

\*                     v = [11, 22, 33, 44, 100]
QUAL_DEEP_MAGIC == <<" ", " ", " ", " ", " ", " ", " ", " ", " ", " ", " ", " ", " ", " ", " ", " ", " ", " ", " ", " ", "v", " ", "=", " ", "[", "1", "1", ",", " ", "2", "2", ",", " ", "3", "3", ",", " ", "4", "4", ",", " ", "1", "0", "0", "]">>

\* function Foo() {}
QUAL_JS == <<"f", "u", "n", "c", "t", "i", "o", "n", " ", "F", "o", "o", "(", ")", " ", "{", "}">>

QualCorpus ==
    {QUAL_BLANK,
     QUAL_MODULE_DOC,
     QUAL_DEF,
     QUAL_DOCSTRING,
     QUAL_DEF_BAD,
     QUAL_CLASS,
     QUAL_COMMENT_DEF,
     QUAL_DEEP_MAGIC,
     QUAL_JS}
(***************************************************************************)
(* State                                                                   *)
(***************************************************************************)

VARIABLES
    sec,            \* the SecurityAnalyzer instance: code, language, lines
    sec_results,    \* what its analyze() returned, NoResult before the call
    sec_previous,   \* the results for the document before the last line was added
    qual,           \* the QualityAnalyzer instance: code, language, lines
    qual_results,   \* what its analyze() returned, NoResult before the call
    draft,          \* a results dict of QualityAnalyzer.analyze on its way to a grade
    py,             \* the PythonAnalyzer instance, or the exception its constructor raised
    py_result,      \* the last structural query made of it and what the query returned
    basic,          \* the BasicAnalyzer instance: code, language, lines
    basic_result,   \* the last query made of it and what the query returned
    jobs,           \* the analyzers of one document at work: position, instance, results
    shared,         \* the class-level rule tables every SecurityAnalyzer instance reads
    scan,           \* a call of _check_general_performance: its locals, line by line
    tally,          \* a call of count_lines_by_type: its locals, line by line
    app             \* the window: its document, its analysis results, its worker threads

secVars == <<sec, sec_results, sec_previous>>

qualVars == <<qual, qual_results>>

structVars == <<py, py_result, basic, basic_result>>

runVars == <<jobs, shared>>

vars == <<sec, sec_results, sec_previous, qual, qual_results, draft, py, py_result, basic, basic_result, jobs, shared, scan, tally, app>>

NoResult == [pending |-> TRUE]

\* No analyzer of the kind has been constructed.
Idle == [idle |-> TRUE]

SecIdle == sec = Idle /\ sec_results = NoResult /\ sec_previous = NoResult

QualIdle == qual = Idle /\ qual_results = NoResult

DraftIdle == draft = Idle

PyIdle == py = Idle /\ py_result = NoResult

BasicIdle == basic = Idle /\ basic_result = NoResult

RunIdle == jobs = Idle /\ shared = Idle

ScanIdle == scan = Idle

TallyIdle == tally = Idle

AppIdle == app = Idle

\* The number of lines of the largest document.
MaxLines == 2

\* Language tags as the callers pass them (utils.helpers.detect_language, the
\* constructor's default).
PYTHON_TAG == <<"P", "y", "t", "h", "o", "n">>

JAVASCRIPT_TAG == <<"J", "a", "v", "a", "S", "c", "r", "i", "p", "t">>

UNKNOWN_TAG == <<"u", "n", "k", "n", "o", "w", "n">>

LanguageTags == {PYTHON_TAG, JAVASCRIPT_TAG, UNKNOWN_TAG}

\* lines[:pos-1] + [line] + lines[pos-1:]
InsertAt(lines, pos, line) ==
    SubSeq(lines, 1, pos - 1) \o <<line>> \o SubSeq(lines, pos, Len(lines))

(***************************************************************************)
(* The security analyzer: construct, analyze, construct again on the       *)
(* document with one more line.                                            *)
(***************************************************************************)

SecInit ==
    /\ \E line \in SecCorpus, language \in LanguageTags :
          sec = SecurityAnalyzer(line, language)
    /\ sec_results = NoResult
    /\ sec_previous = NoResult
    /\ QualIdle
    /\ DraftIdle
    /\ PyIdle /\ BasicIdle /\ RunIdle /\ ScanIdle /\ TallyIdle /\ AppIdle

\* results = analyzer.analyze()
SecAnalyze ==
    /\ sec_results = NoResult
    /\ sec_results' = SecurityAnalyze(sec)
    /\ UNCHANGED <<sec, sec_previous, qual, qual_results, draft, py, py_result, basic, basic_result, jobs, shared, scan, tally, app>>

\* SecurityAnalyzer(code with one line added, language)
SecAddLine ==
    /\ sec_results # NoResult
    /\ Len(sec.lines) < MaxLines
    /\ \E pos \in 1..(Len(sec.lines) + 1), line \in SecCorpus :
          sec' = SecurityAnalyzer(JoinLines(InsertAt(sec.lines, pos, line)), sec.language)
    /\ sec_previous' = sec_results
    /\ sec_results' = NoResult
    /\ UNCHANGED <<qual, qual_results, draft, py, py_result, basic, basic_result, jobs, shared, scan, tally, app>>

SecNext == SecAnalyze \/ SecAddLine

Spec == SecInit /\ [][SecNext]_vars

(***************************************************************************)
(* The quality analyzer: construct, analyze, construct again on the        *)
(* document with one more line at its end.                                 *)
(***************************************************************************)

\* The number of lines of the largest document of the quality analyzer.
MaxQualLines == 2

QualLanguageTags == {PYTHON_TAG, JAVASCRIPT_TAG}

QualInit ==
    /\ \E line \in QualCorpus, language \in QualLanguageTags :
          qual = QualityAnalyzer(line, language)
    /\ qual_results = NoResult
    /\ SecIdle
    /\ DraftIdle
    /\ PyIdle /\ BasicIdle /\ RunIdle /\ ScanIdle /\ TallyIdle /\ AppIdle

\* results = analyzer.analyze()
QualAnalyze ==
    /\ qual_results = NoResult
    /\ qual_results' = QualityAnalyze(qual)
    /\ UNCHANGED <<qual, sec, sec_results, sec_previous, draft, py, py_result, basic, basic_result, jobs, shared, scan, tally, app>>

\* QualityAnalyzer(code with one more line, language)
QualAddLine ==
    /\ qual_results # NoResult
    /\ Len(qual.lines) < MaxQualLines
    /\ \E line \in QualCorpus :
          qual' = QualityAnalyzer(JoinLines(Append(qual.lines, line)), qual.language)
    /\ qual_results' = NoResult
    /\ UNCHANGED <<sec, sec_results, sec_previous, draft, py, py_result, basic, basic_result, jobs, shared, scan, tally, app>>

QualNext == QualAnalyze \/ QualAddLine

SpecQuality == QualInit /\ [][QualNext]_vars

(***************************************************************************)
(* Scoring: analyze() has built a results dict and scores and grades it.   *)
(* The dict is drawn from the counts the four checks can report for a      *)
(* document; the ratios in it are computed from the counts as the checks   *)
(* compute them.                                                           *)
(***************************************************************************)

\* The most naming issues, medium smells and low smells of a drawn dict.
MaxNaming == 8

MaxMedium == 7

MaxLow == 2

\* metrics of a document of code_lines code lines and comment_lines comment
\* lines of 80 characters each and `extra` characters more.
DraftMetrics(code_lines, comment_lines, function_count, extra) ==
    MetricsOf(code_lines + comment_lines, code_lines, 0, comment_lines,
              80 * (code_lines + comment_lines) + extra,
              code_lines + comment_lines, function_count, 0)

\* n naming issues, on lines 1..n.
DraftNaming(n) ==
    [i \in 1..n |->
        NamingIssue(i, <<"q">>, "variable", "Single-letter variable", "- use descriptive name")]

\* documentation of a Python document with the given function counts.
DraftDocumentation(has_module_doc, functions_documented, functions_total) ==
    DocumentationOf(has_module_doc, functions_documented, functions_total, 0, 0,
                    [i \in 1..(functions_total - functions_documented) |->
                        Undocumented(<<"f">>, "function", i)])

\* code_smells in the order _detect_code_smells appends them: the medium
\* ones (too many parameters), the high one (deep nesting), the low ones
\* (a duplicated line, magic numbers).
DraftSmells(medium, high, low) ==
    [i \in 1..medium |->
        Smell(i, "too_many_parameters",
              <<"Function '", <<"f">>, "' has too many parameters (", 6, ")">>, "medium")]
    \o [i \in 1..high |->
        Smell(1, "deep_nesting", <<"Deeply nested code (", 5, " levels)">>, "high")]
    \o [i \in 1..low |->
        Smell(1, "magic_numbers",
              <<"Found ", 4, " magic numbers - consider using named constants">>, "low")]

\* The results dict analyze() scores.
DraftOf(metrics, naming_issues, documentation, code_smells) ==
    [score           |-> 0,
     issues          |-> <<>>,
     metrics         |-> metrics,
     naming_issues   |-> naming_issues,
     documentation   |-> documentation,
     code_smells     |-> code_smells,
     maintainability |-> [issues |-> <<>>, suggestions |-> <<>>]]

ScoreInit ==
    /\ \E code_lines \in {0, 10, 11, 30, 31, 62}, comment_lines \in {0, 1},
          function_count \in {0, 1, 2},
          naming \in 0..MaxNaming,
          has_module_doc \in BOOLEAN, functions_total \in {0, 2, 5},
          medium \in {0, 1, MaxMedium}, high \in {0, 1}, low \in {0, MaxLow} :
        \E functions_documented \in {0, functions_total - 1, functions_total} \cap Nat,
           extra \in {0, 1, code_lines + comment_lines} :
          /\ function_count <= code_lines
          /\ functions_total > 0 => code_lines > 0
          /\ has_module_doc => comment_lines > 0
          /\ code_lines + comment_lines = 0 =>
                extra + naming + medium + high + low = 0
          /\ draft = DraftOf(DraftMetrics(code_lines, comment_lines, function_count, extra),
                             DraftNaming(naming),
                             DraftDocumentation(has_module_doc, functions_documented,
                                                functions_total),
                             DraftSmells(medium, high, low))
    /\ SecIdle
    /\ QualIdle
    /\ PyIdle /\ BasicIdle /\ RunIdle /\ ScanIdle /\ TallyIdle /\ AppIdle

\* results["score"] = self._calculate_score(results)
\* results["grade"] = self._get_grade(results["score"])
ScoreAndGrade ==
    /\ "grade" \notin DOMAIN draft
    /\ draft' = WithGrade(WithScore(draft))
    /\ UNCHANGED <<sec, sec_results, sec_previous, qual, qual_results, py, py_result, basic, basic_result, jobs, shared, scan, tally, app>>

ScoreNext == ScoreAndGrade

SpecScore == ScoreInit /\ [][ScoreNext]_vars

(***************************************************************************)
(* Properties of the security analyzer                                     *)
(***************************************************************************)

SecAnalysed == sec_results # NoResult

RECURSIVE SumValues(_, _)
SumValues(d, keys) ==
    IF keys = {} THEN 0
    ELSE LET k == CHOOSE key \in keys : TRUE
         IN  d[k] + SumValues(d, keys \ {k})

\* The value of a severity count, 0 for a severity the dict does not hold.
CountOf(counts, severity) ==
    IF severity \in DOMAIN counts THEN counts[severity] ELSE 0

\* C1: in every result of analyze, the severity counts add up to total_issues,
\* and total_issues is the length of the issue list.
C1_CountsAddUp ==
    SecAnalysed =>
        /\ SumValues(sec_results.severity_counts, DOMAIN sec_results.severity_counts)
               = sec_results.total_issues
        /\ sec_results.total_issues = Len(sec_results.issues)

\* A result with at least three issues, two of them in one category.
C1_Witness ==
    /\ SecAnalysed
    /\ sec_results.total_issues >= 3
    /\ \E i, j \in 1..Len(sec_results.issues) :
          i # j /\ sec_results.issues[i].category = sec_results.issues[j].category

\* C2: in every result of analyze, severity_counts has the five keys critical,
\* high, medium, low and info, a key without findings holding 0.
C2_FiveSeverityKeys ==
    SecAnalysed =>
        /\ DOMAIN sec_results.severity_counts = {"critical", "high", "medium", "low", "info"}
        /\ \A s \in {"critical", "high", "medium", "low", "info"} :
              (\A i \in 1..Len(sec_results.issues) : sec_results.issues[i].severity # s)
                  => sec_results.severity_counts[s] = 0

\* C3: the risk score is min(100, 25*critical + 15*high + 5*medium + 2*low) of
\* the same result's severity counts, and so lies in 0..100.
C3_RiskScoreFormula ==
    SecAnalysed =>
        /\ sec_results.risk_score =
              Min(100, 25 * CountOf(sec_results.severity_counts, "critical")
                       + 15 * CountOf(sec_results.severity_counts, "high")
                       + 5 * CountOf(sec_results.severity_counts, "medium")
                       + 2 * CountOf(sec_results.severity_counts, "low"))
        /\ sec_results.risk_score \in 0..100

\* A result whose weighted sum exceeds 100 and whose score is 100.
C3_Witness ==
    /\ SecAnalysed
    /\ 25 * sec_results.severity_counts["critical"]
         + 15 * sec_results.severity_counts["high"]
         + 5 * sec_results.severity_counts["medium"]
         + 2 * sec_results.severity_counts["low"] > 100
    /\ sec_results.risk_score = 100

\* C4: the risk score of a document with one line added is at least the risk
\* score of the document, under the same language tag.
C4_RiskMonotone ==
    (SecAnalysed /\ sec_previous # NoResult) =>
        sec_results.risk_score >= sec_previous.risk_score

\* A line with findings was added to a document with findings, and the score
\* went up.
C4_Witness ==
    /\ SecAnalysed
    /\ sec_previous # NoResult
    /\ sec_previous.risk_score > 0
    /\ sec_results.risk_score > sec_previous.risk_score

\* The severity the mapping gives a category.
SeverityOfCategory(category) ==
    CASE category \in {"sql_injection", "command_injection", "unsafe_deserialization"}
           -> "critical"
      [] category \in {"xss", "eval", "prototype_pollution", "hardcoded_secrets"}
           -> "high"
      [] category \in {"weak_crypto", "path_traversal"} -> "medium"
      [] OTHER -> "low"

\* Every <<category, pattern>> of SECURITY_PATTERNS.
SecAllRules ==
    UNION {UNION {{<<d[c].key, d[c].value[k].pattern>> : k \in 1..Len(d[c].value)} :
                      c \in 1..Len(d)} :
              d \in {SECURITY_PATTERNS[l] : l \in DOMAIN SECURITY_PATTERNS}}

\* C5: the severity of every finding is decided by its category alone, by the
\* mapping critical / high / medium / low-for-the-rest, and every category of
\* the rule sets has one of these four severities.
C5_SeverityByCategory ==
    /\ SecAnalysed =>
          \A i \in 1..Len(sec_results.issues) :
              /\ sec_results.issues[i].severity
                     = SeverityOfCategory(sec_results.issues[i].category)
              /\ sec_results.issues[i].severity \in {"critical", "high", "medium", "low"}
    /\ \A r \in SecAllRules :
          /\ DetermineSeverity(r[1], r[2]) = SeverityOfCategory(r[1])
          /\ DetermineSeverity(r[1], r[2]) \in {"critical", "high", "medium", "low"}

\* A result with findings of three severities, low among them.
C5_Witness ==
    /\ SecAnalysed
    /\ Cardinality({sec_results.issues[i].severity : i \in 1..Len(sec_results.issues)}) >= 3
    /\ \E i \in 1..Len(sec_results.issues) : sec_results.issues[i].severity = "low"

\* The stripped line starts with #, //, /* or *.
IsCommentLine(line) ==
    \/ StartsWith(Strip(line), <<"#">>)
    \/ StartsWith(Strip(line), <<"/", "/">>)
    \/ StartsWith(Strip(line), <<"/", "*">>)
    \/ StartsWith(Strip(line), <<"*">>)

\* The <<line number, category index, rule index>> triples of a document and
\* a rule set where the line is no comment and the pattern matches.
SecHits(lines, rules) ==
    UNION {UNION {{<<i, c, k>> :
                      k \in {n \in 1..Len(rules[c].value) :
                                SecSearch(rules[c].value[n].pattern, lines[i])}} :
                  c \in 1..Len(rules)} :
           i \in {n \in 1..Len(lines) : ~IsCommentLine(lines[n])}}

\* The finding a hit is reported as (severity aside).
FindingOf(h, lines, rules) ==
    [line     |-> h[1],
     category |-> rules[h[2]].key,
     message  |-> rules[h[2]].value[h[3]].message,
     code     |-> Prefix(Strip(lines[h[1]]), 80)]

IssueSansSeverity(issue) ==
    [line |-> issue.line, category |-> issue.category,
     message |-> issue.message, code |-> issue.code]

\* The findings of the hits, and the findings reported, as sets.
ExpectedFindings(hits, lines, rules) == {FindingOf(h, lines, rules) : h \in hits}

ReportedFindings(issues) == {IssueSansSeverity(issues[j]) : j \in 1..Len(issues)}

OneFindingPerHit(hits, lines, rules, issues) ==
    /\ Len(issues) = Cardinality(hits)
    /\ Cardinality(ExpectedFindings(hits, lines, rules)) = Cardinality(hits)
    /\ ReportedFindings(issues) = ExpectedFindings(hits, lines, rules)
    /\ \A j \in 1..Len(issues) :
          /\ ~IsCommentLine(lines[issues[j].line])
          /\ Len(issues[j].code) <= 80

\* C6: analyze emits exactly one finding for every pair of an active rule and
\* a non-comment line the rule's pattern matches, none for a comment line, and
\* the finding has the rule's category and message, the 1-based line number
\* and the stripped line cut to at most 80 characters.
C6_OneFindingPerHit ==
    SecAnalysed =>
        OneFindingPerHit(SecHits(sec.lines, PatternsToCheck(sec)),
                         sec.lines, PatternsToCheck(sec), sec_results.issues)

\* A two-line document with a comment line that a pattern matches, and a
\* matched line of more than 80 characters reported cut to 80.
C6_Witness ==
    /\ SecAnalysed
    /\ \E i \in 1..Len(sec.lines) :
          /\ IsCommentLine(sec.lines[i])
          /\ \E p \in SecAllPatterns : SecSearch(p, sec.lines[i])
    /\ \E j \in 1..Len(sec_results.issues) :
          /\ Len(sec_results.issues[j].code) = 80
          /\ Len(sec.lines[sec_results.issues[j].line]) > 80

\* The categories of a rule set.
CategoriesOf(rules) == {rules[c].key : c \in 1..Len(rules)}

\* Whether the result holds a finding of the category and severity on a line.
HasFinding(results, i, category, severity) ==
    \E j \in 1..Len(results.issues) :
        /\ results.issues[j].line = i
        /\ results.issues[j].category = category
        /\ results.issues[j].severity = severity

\* The rule set analyze evaluates is the language's rule set merged with the
\* general one, every category with its own rules.
MergedRuleSet(self) ==
    /\ CategoriesOf(PatternsToCheck(self))
          = CategoriesOf(SECURITY_PATTERNS[GENERAL])
            \cup (IF self.language \in DOMAIN SECURITY_PATTERNS
                  THEN CategoriesOf(SECURITY_PATTERNS[self.language]) ELSE {})
    /\ \A category \in CategoriesOf(SECURITY_PATTERNS[GENERAL]) :
          DictGet(PatternsToCheck(self), category)
              = DictGet(SECURITY_PATTERNS[GENERAL], category)
    /\ self.language \in DOMAIN SECURITY_PATTERNS =>
          \A category \in CategoriesOf(SECURITY_PATTERNS[self.language]) :
              DictGet(PatternsToCheck(self), category)
                  = DictGet(SECURITY_PATTERNS[self.language], category)

\* C7 as stated: the merged rule set, and for every language tag the line
\* os.system("rm -rf " + user_input) yields a critical command_injection
\* finding and the line password = "abc123" a high hardcoded_secrets finding.
C7_AsStated ==
    SecAnalysed =>
        /\ MergedRuleSet(sec)
        /\ \A i \in 1..Len(sec.lines) :
              /\ sec.lines[i] = SEC_OS_SYSTEM
                    => HasFinding(sec_results, i, "command_injection", "critical")
              /\ sec.lines[i] = SEC_PASSWORD
                    => HasFinding(sec_results, i, "hardcoded_secrets", "high")

\* C7: the rule set analyze evaluates is the language's rule set merged with
\* the general one, the general categories present for every tag and no
\* language category lost; the os.system line yields a critical
\* command_injection finding when the tag lower-cases to python, and the
\* password line a high hardcoded_secrets finding when it lower-cases to
\* python or javascript; under any other tag neither finding is made.
C7_MergedRuleSet ==
    SecAnalysed =>
        /\ MergedRuleSet(sec)
        /\ \A i \in 1..Len(sec.lines) :
              /\ sec.lines[i] = SEC_OS_SYSTEM
                    => (HasFinding(sec_results, i, "command_injection", "critical")
                            <=> sec.language = Lower(PYTHON_TAG))
              /\ sec.lines[i] = SEC_PASSWORD
                    => (HasFinding(sec_results, i, "hardcoded_secrets", "high")
                            <=> sec.language \in {Lower(PYTHON_TAG), Lower(JAVASCRIPT_TAG)})

\* A Python document of the os.system line and the password line, with both
\* findings and a finding of a general category.
C7_Witness ==
    /\ SecAnalysed
    /\ sec.language = Lower(PYTHON_TAG)
    /\ sec.lines = <<SEC_OS_SYSTEM, SEC_PASSWORD>>
    /\ HasFinding(sec_results, 1, "command_injection", "critical")
    /\ HasFinding(sec_results, 2, "hardcoded_secrets", "high")
    /\ HasFinding(sec_results, 2, "sensitive_data", "low")

(***************************************************************************)
(* Properties of the quality analyzer                                      *)
(***************************************************************************)

DraftGraded == draft # Idle /\ "grade" \in DOMAIN draft

\* The number of code smells of a severity.
SmellsOf(results, severity) ==
    Cardinality({i \in 1..Len(results.code_smells) :
                    results.code_smells[i].severity = severity})

\* What the scoring rule deducts for the metrics, the naming issues and the
\* code smells of a results dict, and for its documentation.
MetricPenalty(results) ==
    (IF 10 * results.metrics.comment_ratio.num < results.metrics.comment_ratio.den
     THEN 10 ELSE 0)
    + (IF results.metrics.average_line_length > 800 THEN 5 ELSE 0)
    + (IF results.metrics.lines_per_function.num > 30 * results.metrics.lines_per_function.den
       THEN 10 ELSE 0)

NamingPenalty(results) ==
    IF 2 * Len(results.naming_issues) < 15 THEN 2 * Len(results.naming_issues) ELSE 15

SmellPenalty(results) ==
    8 * SmellsOf(results, "high") + 5 * SmellsOf(results, "medium")
    + 2 * SmellsOf(results, "low")

DocumentationPenalty(results) ==
    (IF results.documentation.has_module_doc THEN 0 ELSE 5)
    + (IF 2 * results.documentation.coverage.num < results.documentation.coverage.den
       THEN 10
       ELSE IF 5 * results.documentation.coverage.num < 4 * results.documentation.coverage.den
       THEN 5 ELSE 0)

Clamp(n) == IF n < 0 THEN 0 ELSE IF n > 100 THEN 100 ELSE n

\* C8: the score is the clamp to 0..100 of 100, minus 10 for a comment ratio
\* under 0.10, minus 5 for an average line length over 80, minus 10 for more
\* than 30 lines per function, minus min(2 * naming issues, 15), minus 5 for
\* no module docstring, minus 10 for a documentation coverage under 0.50 or
\* else 5 for one under 0.80, minus 8, 5 or 2 for each high, medium or low
\* code smell, the smells uncapped.
C8_ScoreFormula ==
    DraftGraded =>
        draft.score = Clamp(100 - MetricPenalty(draft) - NamingPenalty(draft)
                                - DocumentationPenalty(draft) - SmellPenalty(draft))

\* A scored dict where every deduction applies, the naming cap is in force
\* and the score is above 0.
C8_Witness ==
    /\ DraftGraded
    /\ MetricPenalty(draft) = 25
    /\ Len(draft.naming_issues) = 8
    /\ DocumentationPenalty(draft) = 15
    /\ SmellsOf(draft, "high") = 1 /\ SmellsOf(draft, "medium") = 1
    /\ SmellsOf(draft, "low") = 2
    /\ draft.score = 28

\* C9: the score is in 0..100 and the grade is A for a score of 90 or more,
\* B for 80..89, C for 70..79, D for 60..69 and F below 60.
C9_GradeOfScore ==
    DraftGraded =>
        /\ draft.score \in 0..100
        /\ draft.grade = (CASE draft.score >= 90 -> "A"
                            [] draft.score \in 80..89 -> "B"
                            [] draft.score \in 70..79 -> "C"
                            [] draft.score \in 60..69 -> "D"
                            [] draft.score < 60 -> "F")

\* A dict scored 90 and graded A.
C9_Witness == DraftGraded /\ draft.score = 90 /\ draft.grade = "A"

QualAnalysed == qual # Idle /\ qual_results # NoResult

\* What the division guard of _check_documentation does give: when the
\* documentation check itself finds no def and no class, the coverage is 0
\* over a denominator of 1, and without a module docstring the score has the
\* 5 and the 10 deducted.
CoverageGuarded ==
    (/\ QualAnalysed
     /\ qual_results.documentation.functions_total = 0
     /\ qual_results.documentation.classes_total = 0)
    => /\ qual_results.documentation.coverage = [num |-> 0, den |-> 1]
       /\ ~qual_results.documentation.has_module_doc =>
             qual_results.score =
                 Clamp(100 - MetricPenalty(qual_results) - NamingPenalty(qual_results)
                           - SmellPenalty(qual_results) - 5 - 10)

\* C10: when a document has zero functions and zero classes (the metrics of
\* the same result count none), the documentation coverage is exactly 0, over
\* a denominator of 1, and without a module docstring the score has both the
\* 5 of the missing module docstring and the 10 of the low coverage deducted.
C10_NoDefinitions ==
    (/\ QualAnalysed
     /\ qual_results.metrics.function_count = 0
     /\ qual_results.metrics.class_count = 0)
    => /\ qual_results.documentation.coverage = [num |-> 0, den |-> 1]
       /\ ~qual_results.documentation.has_module_doc =>
             qual_results.score =
                 Clamp(100 - MetricPenalty(qual_results) - NamingPenalty(qual_results)
                           - SmellPenalty(qual_results) - 5 - 10)

(***************************************************************************)
(* code_analyzer.py: BasicAnalyzer and PythonAnalyzer.                     *)
(*                                                                         *)
(* An optional value (None or a value) is a sequence of at most one        *)
(* element.  ast.parse belongs to the standard library: it is a table from *)
(* the snippets of PySnippets to what CPython 3.11 makes of each, taken    *)
(* from the interpreter, and a document of several snippets is parsed      *)
(* snippet by snippet.  A node of the tree carries its class name, the     *)
(* attributes the analyzer reads, and its children in the order of         *)
(* ast.iter_child_nodes.                                                   *)
(***************************************************************************)

None == <<>>

Some(v) == <<v>>

Kid(field, node) == [field |-> field, node |-> node]

\* type: the node class; name: name / id / attr / arg; opt: asname or module;
\* count: len(values) or level; text: ast.unparse(node); doc: ast.get_docstring(node)
AstX(type, name, opt, lineno, end_lineno, count, text, doc, kids) ==
    [type |-> type, name |-> name, opt |-> opt, lineno |-> lineno,
     end_lineno |-> end_lineno, count |-> count, text |-> text, doc |-> doc,
     kids |-> kids]

Ast(type, name, lineno, end_lineno, kids) ==
    AstX(type, name, None, lineno, end_lineno, 0, <<>>, None, kids)

Leaf(type) == Ast(type, <<>>, 0, 0, <<>>)

NoSyntaxError == [msg |-> <<>>, lineno |-> 0, offset |-> 0, text |-> <<>>]

\* What ast.parse makes of a snippet: a module body, a SyntaxError, or a
\* RecursionError ("maximum recursion depth exceeded during ast construction").
Parsed(text, newlines, body) ==
    [text |-> text, newlines |-> newlines, outcome |-> "tree", body |-> body,
     error |-> NoSyntaxError]

Rejected(text, newlines, msg, lineno, offset, line) ==
    [text |-> text, newlines |-> newlines, outcome |-> "SyntaxError", body |-> <<>>,
     error |-> [msg |-> msg, lineno |-> lineno, offset |-> offset, text |-> line]]

TooDeep(text, newlines) ==
    [text |-> text, newlines |-> newlines, outcome |-> "RecursionError", body |-> <<>>,
     error |-> NoSyntaxError]

Str4(a, b, c, d) == <<a, b, c, d>>

\* "-" * n
Dashes(n) == [i \in 1..n |-> "-"]

\* The number of unary minus signs of the deeply nested expression.
DEEP_DASHES == 3000

\* | print('hello')
PY_HELLO ==
    Parsed(<<"p", "r", "i", "n", "t", "(", "'", "h", "e", "l", "l", "o", "'", ")", "\n">>, 1,
        <<Ast("Expr", <<>>, 1, 1, <<Kid("value", Ast("Call", <<>>, 1, 1, <<Kid("func", Ast("Name", <<"p", "r", "i", "n", "t">>, 1, 1, <<Kid("ctx", Leaf("Load"))>>)),
                Kid("args", Ast("Constant", <<>>, 1, 1, <<>>))>>))>>)>>)

\* | def plain(a, b: int = 1) -> int:
\* |     """d"""
\* |     return a
PY_PLAIN ==
    Parsed(<<"d", "e", "f", " ", "p", "l", "a", "i", "n", "(", "a", ",", " ", "b", ":", " ", "i", "n", "t", " ", "=", " ", "1", ")", " ", "-", ">", " ", "i", "n", "t", ":", "\n", " ", " ", " ", " ", "\"", "\"", "\"", "d", "\"", "\"", "\"", "\n", " ", " ", " ", " ", "r", "e", "t", "u", "r", "n", " ", "a", "\n">>, 3,
        <<AstX("FunctionDef", <<"p", "l", "a", "i", "n">>, <<>>, 1, 3, 0, <<>>, <<<<"d">>>>, <<Kid("args", Ast("arguments", <<>>, 0, 0, <<Kid("args", Ast("arg", <<"a">>, 1, 1, <<>>)),
                Kid("args", Ast("arg", <<"b">>, 1, 1, <<Kid("annotation", AstX("Name", <<"i", "n", "t">>, <<>>, 1, 1, 0, <<"i", "n", "t">>, <<>>, <<Kid("ctx", Leaf("Load"))>>))>>)),
                Kid("defaults", Ast("Constant", <<>>, 1, 1, <<>>))>>)),
            Kid("body", Ast("Expr", <<>>, 2, 2, <<Kid("value", Ast("Constant", <<>>, 2, 2, <<>>))>>)),
            Kid("body", Ast("Return", <<>>, 3, 3, <<Kid("value", Ast("Name", <<"a">>, 3, 3, <<Kid("ctx", Leaf("Load"))>>))>>)),
            Kid("returns", AstX("Name", <<"i", "n", "t">>, <<>>, 1, 1, 0, <<"i", "n", "t">>, <<>>, <<Kid("ctx", Leaf("Load"))>>))>>)>>)

\* | def four(a):
\* |     if a: pass
\* |     if a: pass
\* |     if a: pass
\* |     if a: pass
PY_FOUR_IFS ==
    Parsed(<<"d", "e", "f", " ", "f", "o", "u", "r", "(", "a", ")", ":", "\n", " ", " ", " ", " ", "i", "f", " ", "a", ":", " ", "p", "a", "s", "s", "\n", " ", " ", " ", " ", "i", "f", " ", "a", ":", " ", "p", "a", "s", "s", "\n", " ", " ", " ", " ", "i", "f", " ", "a", ":", " ", "p", "a", "s", "s", "\n", " ", " ", " ", " ", "i", "f", " ", "a", ":", " ", "p", "a", "s", "s", "\n">>, 5,
        <<Ast("FunctionDef", <<"f", "o", "u", "r">>, 1, 5, <<Kid("args", Ast("arguments", <<>>, 0, 0, <<Kid("args", Ast("arg", <<"a">>, 1, 1, <<>>))>>)),
            Kid("body", Ast("If", <<>>, 2, 2, <<Kid("test", Ast("Name", <<"a">>, 2, 2, <<Kid("ctx", Leaf("Load"))>>)),
                Kid("body", Ast("Pass", <<>>, 2, 2, <<>>))>>)),
            Kid("body", Ast("If", <<>>, 3, 3, <<Kid("test", Ast("Name", <<"a">>, 3, 3, <<Kid("ctx", Leaf("Load"))>>)),
                Kid("body", Ast("Pass", <<>>, 3, 3, <<>>))>>)),
            Kid("body", Ast("If", <<>>, 4, 4, <<Kid("test", Ast("Name", <<"a">>, 4, 4, <<Kid("ctx", Leaf("Load"))>>)),
                Kid("body", Ast("Pass", <<>>, 4, 4, <<>>))>>)),
            Kid("body", Ast("If", <<>>, 5, 5, <<Kid("test", Ast("Name", <<"a">>, 5, 5, <<Kid("ctx", Leaf("Load"))>>)),
                Kid("body", Ast("Pass", <<>>, 5, 5, <<>>))>>))>>)>>)

\* | def outer(x):
\* |     def inner():
\* |         if x: pass
\* |     for i in x:
\* |         while i and x or i: pass
PY_NESTED ==
    Parsed(<<"d", "e", "f", " ", "o", "u", "t", "e", "r", "(", "x", ")", ":", "\n", " ", " ", " ", " ", "d", "e", "f", " ", "i", "n", "n", "e", "r", "(", ")", ":", "\n", " ", " ", " ", " ", " ", " ", " ", " ", "i", "f", " ", "x", ":", " ", "p", "a", "s", "s", "\n", " ", " ", " ", " ", "f", "o", "r", " ", "i", " ", "i", "n", " ", "x", ":", "\n", " ", " ", " ", " ", " ", " ", " ", " ", "w", "h", "i", "l", "e", " ", "i", " ", "a", "n", "d", " ", "x", " ", "o", "r", " ", "i", ":", " ", "p", "a", "s", "s", "\n">>, 5,
        <<Ast("FunctionDef", <<"o", "u", "t", "e", "r">>, 1, 5, <<Kid("args", Ast("arguments", <<>>, 0, 0, <<Kid("args", Ast("arg", <<"x">>, 1, 1, <<>>))>>)),
            Kid("body", Ast("FunctionDef", <<"i", "n", "n", "e", "r">>, 2, 3, <<Kid("args", Leaf("arguments")),
                Kid("body", Ast("If", <<>>, 3, 3, <<Kid("test", Ast("Name", <<"x">>, 3, 3, <<Kid("ctx", Leaf("Load"))>>)),
                    Kid("body", Ast("Pass", <<>>, 3, 3, <<>>))>>))>>)),
            Kid("body", Ast("For", <<>>, 4, 5, <<Kid("target", Ast("Name", <<"i">>, 4, 4, <<Kid("ctx", Leaf("Store"))>>)),
                Kid("iter", Ast("Name", <<"x">>, 4, 4, <<Kid("ctx", Leaf("Load"))>>)),
                Kid("body", Ast("While", <<>>, 5, 5, <<Kid("test", AstX("BoolOp", <<>>, <<>>, 5, 5, 2, <<>>, <<>>, <<Kid("op", Leaf("Or")),
                        Kid("values", AstX("BoolOp", <<>>, <<>>, 5, 5, 2, <<>>, <<>>, <<Kid("op", Leaf("And")),
                            Kid("values", Ast("Name", <<"i">>, 5, 5, <<Kid("ctx", Leaf("Load"))>>)),
                            Kid("values", Ast("Name", <<"x">>, 5, 5, <<Kid("ctx", Leaf("Load"))>>))>>)),
                        Kid("values", Ast("Name", <<"i">>, 5, 5, <<Kid("ctx", Leaf("Load"))>>))>>)),
                    Kid("body", Ast("Pass", <<>>, 5, 5, <<>>))>>))>>))>>)>>)

\* | def guarded(y):
\* |     try:
\* |         return [i for i in y if i for j in i]
\* |     except A:
\* |         pass
\* |     except B:
\* |         pass
PY_TRY_COMP ==
    Parsed(<<"d", "e", "f", " ", "g", "u", "a", "r", "d", "e", "d", "(", "y", ")", ":", "\n", " ", " ", " ", " ", "t", "r", "y", ":", "\n", " ", " ", " ", " ", " ", " ", " ", " ", "r", "e", "t", "u", "r", "n", " ", "[", "i", " ", "f", "o", "r", " ", "i", " ", "i", "n", " ", "y", " ", "i", "f", " ", "i", " ", "f", "o", "r", " ", "j", " ", "i", "n", " ", "i", "]", "\n", " ", " ", " ", " ", "e", "x", "c", "e", "p", "t", " ", "A", ":", "\n", " ", " ", " ", " ", " ", " ", " ", " ", "p", "a", "s", "s", "\n", " ", " ", " ", " ", "e", "x", "c", "e", "p", "t", " ", "B", ":", "\n", " ", " ", " ", " ", " ", " ", " ", " ", "p", "a", "s", "s", "\n">>, 7,
        <<Ast("FunctionDef", <<"g", "u", "a", "r", "d", "e", "d">>, 1, 7, <<Kid("args", Ast("arguments", <<>>, 0, 0, <<Kid("args", Ast("arg", <<"y">>, 1, 1, <<>>))>>)),
            Kid("body", Ast("Try", <<>>, 2, 7, <<Kid("body", Ast("Return", <<>>, 3, 3, <<Kid("value", Ast("ListComp", <<>>, 3, 3, <<Kid("elt", Ast("Name", <<"i">>, 3, 3, <<Kid("ctx", Leaf("Load"))>>)),
                        Kid("generators", Ast("comprehension", <<>>, 0, 0, <<Kid("target", Ast("Name", <<"i">>, 3, 3, <<Kid("ctx", Leaf("Store"))>>)),
                            Kid("iter", Ast("Name", <<"y">>, 3, 3, <<Kid("ctx", Leaf("Load"))>>)),
                            Kid("ifs", Ast("Name", <<"i">>, 3, 3, <<Kid("ctx", Leaf("Load"))>>))>>)),
                        Kid("generators", Ast("comprehension", <<>>, 0, 0, <<Kid("target", Ast("Name", <<"j">>, 3, 3, <<Kid("ctx", Leaf("Store"))>>)),
                            Kid("iter", Ast("Name", <<"i">>, 3, 3, <<Kid("ctx", Leaf("Load"))>>))>>))>>))>>)),
                Kid("handlers", Ast("ExceptHandler", <<>>, 4, 5, <<Kid("type", Ast("Name", <<"A">>, 4, 4, <<Kid("ctx", Leaf("Load"))>>)),
                    Kid("body", Ast("Pass", <<>>, 5, 5, <<>>))>>)),
                Kid("handlers", Ast("ExceptHandler", <<>>, 6, 7, <<Kid("type", Ast("Name", <<"B">>, 6, 6, <<Kid("ctx", Leaf("Load"))>>)),
                    Kid("body", Ast("Pass", <<>>, 7, 7, <<>>))>>))>>))>>)>>)

\* | def defaults(a=(b or c)):
\* |     pass
PY_DEFAULT ==
    Parsed(<<"d", "e", "f", " ", "d", "e", "f", "a", "u", "l", "t", "s", "(", "a", "=", "(", "b", " ", "o", "r", " ", "c", ")", ")", ":", "\n", " ", " ", " ", " ", "p", "a", "s", "s", "\n">>, 2,
        <<Ast("FunctionDef", <<"d", "e", "f", "a", "u", "l", "t", "s">>, 1, 2, <<Kid("args", Ast("arguments", <<>>, 0, 0, <<Kid("args", Ast("arg", <<"a">>, 1, 1, <<>>)),
                Kid("defaults", AstX("BoolOp", <<>>, <<>>, 1, 1, 2, <<>>, <<>>, <<Kid("op", Leaf("Or")),
                    Kid("values", Ast("Name", <<"b">>, 1, 1, <<Kid("ctx", Leaf("Load"))>>)),
                    Kid("values", Ast("Name", <<"c">>, 1, 1, <<Kid("ctx", Leaf("Load"))>>))>>))>>)),
            Kid("body", Ast("Pass", <<>>, 2, 2, <<>>))>>)>>)

\* | async def stream(x):
\* |     async for i in x:
\* |         pass
\* |     return 1 if x else 2
PY_ASYNC ==
    Parsed(<<"a", "s", "y", "n", "c", " ", "d", "e", "f", " ", "s", "t", "r", "e", "a", "m", "(", "x", ")", ":", "\n", " ", " ", " ", " ", "a", "s", "y", "n", "c", " ", "f", "o", "r", " ", "i", " ", "i", "n", " ", "x", ":", "\n", " ", " ", " ", " ", " ", " ", " ", " ", "p", "a", "s", "s", "\n", " ", " ", " ", " ", "r", "e", "t", "u", "r", "n", " ", "1", " ", "i", "f", " ", "x", " ", "e", "l", "s", "e", " ", "2", "\n">>, 4,
        <<Ast("AsyncFunctionDef", <<"s", "t", "r", "e", "a", "m">>, 1, 4, <<Kid("args", Ast("arguments", <<>>, 0, 0, <<Kid("args", Ast("arg", <<"x">>, 1, 1, <<>>))>>)),
            Kid("body", Ast("AsyncFor", <<>>, 2, 3, <<Kid("target", Ast("Name", <<"i">>, 2, 2, <<Kid("ctx", Leaf("Store"))>>)),
                Kid("iter", Ast("Name", <<"x">>, 2, 2, <<Kid("ctx", Leaf("Load"))>>)),
                Kid("body", Ast("Pass", <<>>, 3, 3, <<>>))>>)),
            Kid("body", Ast("Return", <<>>, 4, 4, <<Kid("value", Ast("IfExp", <<>>, 4, 4, <<Kid("test", Ast("Name", <<"x">>, 4, 4, <<Kid("ctx", Leaf("Load"))>>)),
                    Kid("body", Ast("Constant", <<>>, 4, 4, <<>>)),
                    Kid("orelse", Ast("Constant", <<>>, 4, 4, <<>>))>>))>>))>>)>>)

\* | def busy(a):
\* |     return a and a and a and a and a and a and a and a and a...
PY_BUSY ==
    Parsed(<<"d", "e", "f", " ", "b", "u", "s", "y", "(", "a", ")", ":", "\n", " ", " ", " ", " ", "r", "e", "t", "u", "r", "n", " ", "a", " ", "a", "n", "d", " ", "a", " ", "a", "n", "d", " ", "a", " ", "a", "n", "d", " ", "a", " ", "a", "n", "d", " ", "a", " ", "a", "n", "d", " ", "a", " ", "a", "n", "d", " ", "a", " ", "a", "n", "d", " ", "a", " ", "a", "n", "d", " ", "a", " ", "a", "n", "d", " ", "a", " ", "a", "n", "d", " ", "a", "\n">>, 2,
        <<Ast("FunctionDef", <<"b", "u", "s", "y">>, 1, 2, <<Kid("args", Ast("arguments", <<>>, 0, 0, <<Kid("args", Ast("arg", <<"a">>, 1, 1, <<>>))>>)),
            Kid("body", Ast("Return", <<>>, 2, 2, <<Kid("value", AstX("BoolOp", <<>>, <<>>, 2, 2, 11, <<>>, <<>>, <<Kid("op", Leaf("And")),
                    Kid("values", Ast("Name", <<"a">>, 2, 2, <<Kid("ctx", Leaf("Load"))>>)),
                    Kid("values", Ast("Name", <<"a">>, 2, 2, <<Kid("ctx", Leaf("Load"))>>)),
                    Kid("values", Ast("Name", <<"a">>, 2, 2, <<Kid("ctx", Leaf("Load"))>>)),
                    Kid("values", Ast("Name", <<"a">>, 2, 2, <<Kid("ctx", Leaf("Load"))>>)),
                    Kid("values", Ast("Name", <<"a">>, 2, 2, <<Kid("ctx", Leaf("Load"))>>)),
                    Kid("values", Ast("Name", <<"a">>, 2, 2, <<Kid("ctx", Leaf("Load"))>>)),
                    Kid("values", Ast("Name", <<"a">>, 2, 2, <<Kid("ctx", Leaf("Load"))>>)),
                    Kid("values", Ast("Name", <<"a">>, 2, 2, <<Kid("ctx", Leaf("Load"))>>)),
                    Kid("values", Ast("Name", <<"a">>, 2, 2, <<Kid("ctx", Leaf("Load"))>>)),
                    Kid("values", Ast("Name", <<"a">>, 2, 2, <<Kid("ctx", Leaf("Load"))>>)),
                    Kid("values", Ast("Name", <<"a">>, 2, 2, <<Kid("ctx", Leaf("Load"))>>))>>))>>))>>)>>)

\* | def documented():
\* |     """ddddddddddddddddddddddddddddddddddddddddddddddddddddd...
PY_LONG_DOC ==
    Parsed(<<"d", "e", "f", " ", "d", "o", "c", "u", "m", "e", "n", "t", "e", "d", "(", ")", ":", "\n", " ", " ", " ", " ", "\"", "\"", "\"", "d", "d", "d", "d", "d", "d", "d", "d", "d", "d", "d", "d", "d", "d", "d", "d", "d", "d", "d", "d", "d", "d", "d", "d", "d", "d", "d", "d", "d", "d", "d", "d", "d", "d", "d", "d", "d", "d", "d", "d", "d", "d", "d", "d", "d", "d", "d", "d", "d", "d", "d", "d", "d", "d", "d", "d", "d", "d", "d", "d", "d", "d", "d", "d", "d", "d", "d", "d", "d", "d", "d", "d", "d", "d", "d", "d", "d", "d", "d", "d", "d", "d", "d", "d", "d", "d", "d", "d", "d", "d", "d", "d", "d", "d", "d", "d", "d", "d", "d", "d", "d", "\"", "\"", "\"", "\n">>, 2,
        <<AstX("FunctionDef", <<"d", "o", "c", "u", "m", "e", "n", "t", "e", "d">>, <<>>, 1, 2, 0, <<>>, <<<<"d", "d", "d", "d", "d", "d", "d", "d", "d", "d", "d", "d", "d", "d", "d", "d", "d", "d", "d", "d", "d", "d", "d", "d", "d", "d", "d", "d", "d", "d", "d", "d", "d", "d", "d", "d", "d", "d", "d", "d", "d", "d", "d", "d", "d", "d", "d", "d", "d", "d", "d", "d", "d", "d", "d", "d", "d", "d", "d", "d", "d", "d", "d", "d", "d", "d", "d", "d", "d", "d", "d", "d", "d", "d", "d", "d", "d", "d", "d", "d", "d", "d", "d", "d", "d", "d", "d", "d", "d", "d", "d", "d", "d", "d", "d", "d", "d", "d", "d", "d", "d">>>>, <<Kid("args", Leaf("arguments")),
            Kid("body", Ast("Expr", <<>>, 2, 2, <<Kid("value", Ast("Constant", <<>>, 2, 2, <<>>))>>))>>)>>)

\* | @register
\* | class Shape(Base, mixins.M):
\* |     """doc"""
\* |     @app.route("/")
\* |     def area(self): pass
\* |     async def load(self): pass
PY_CLASS ==
    Parsed(<<"@", "r", "e", "g", "i", "s", "t", "e", "r", "\n", "c", "l", "a", "s", "s", " ", "S", "h", "a", "p", "e", "(", "B", "a", "s", "e", ",", " ", "m", "i", "x", "i", "n", "s", ".", "M", ")", ":", "\n", " ", " ", " ", " ", "\"", "\"", "\"", "d", "o", "c", "\"", "\"", "\"", "\n", " ", " ", " ", " ", "@", "a", "p", "p", ".", "r", "o", "u", "t", "e", "(", "\"", "/", "\"", ")", "\n", " ", " ", " ", " ", "d", "e", "f", " ", "a", "r", "e", "a", "(", "s", "e", "l", "f", ")", ":", " ", "p", "a", "s", "s", "\n", " ", " ", " ", " ", "a", "s", "y", "n", "c", " ", "d", "e", "f", " ", "l", "o", "a", "d", "(", "s", "e", "l", "f", ")", ":", " ", "p", "a", "s", "s", "\n">>, 6,
        <<AstX("ClassDef", <<"S", "h", "a", "p", "e">>, <<>>, 2, 6, 0, <<>>, <<<<"d", "o", "c">>>>, <<Kid("bases", AstX("Name", <<"B", "a", "s", "e">>, <<>>, 2, 2, 0, <<"B", "a", "s", "e">>, <<>>, <<Kid("ctx", Leaf("Load"))>>)),
            Kid("bases", AstX("Attribute", <<"M">>, <<>>, 2, 2, 0, <<"m", "i", "x", "i", "n", "s", ".", "M">>, <<>>, <<Kid("value", Ast("Name", <<"m", "i", "x", "i", "n", "s">>, 2, 2, <<Kid("ctx", Leaf("Load"))>>)),
                Kid("ctx", Leaf("Load"))>>)),
            Kid("body", Ast("Expr", <<>>, 3, 3, <<Kid("value", Ast("Constant", <<>>, 3, 3, <<>>))>>)),
            Kid("body", Ast("FunctionDef", <<"a", "r", "e", "a">>, 5, 5, <<Kid("args", Ast("arguments", <<>>, 0, 0, <<Kid("args", Ast("arg", <<"s", "e", "l", "f">>, 5, 5, <<>>))>>)),
                Kid("body", Ast("Pass", <<>>, 5, 5, <<>>)),
                Kid("decorator_list", Ast("Call", <<>>, 4, 4, <<Kid("func", Ast("Attribute", <<"r", "o", "u", "t", "e">>, 4, 4, <<Kid("value", Ast("Name", <<"a", "p", "p">>, 4, 4, <<Kid("ctx", Leaf("Load"))>>)),
                        Kid("ctx", Leaf("Load"))>>)),
                    Kid("args", Ast("Constant", <<>>, 4, 4, <<>>))>>))>>)),
            Kid("body", Ast("AsyncFunctionDef", <<"l", "o", "a", "d">>, 6, 6, <<Kid("args", Ast("arguments", <<>>, 0, 0, <<Kid("args", Ast("arg", <<"s", "e", "l", "f">>, 6, 6, <<>>))>>)),
                Kid("body", Ast("Pass", <<>>, 6, 6, <<>>))>>)),
            Kid("decorator_list", Ast("Name", <<"r", "e", "g", "i", "s", "t", "e", "r">>, 1, 1, <<Kid("ctx", Leaf("Load"))>>))>>)>>)

\* | import os.path, numpy as np
\* | from . import x
\* | from collections import abc as c
\* | from ..pkg import y
PY_IMPORTS ==
    Parsed(<<"i", "m", "p", "o", "r", "t", " ", "o", "s", ".", "p", "a", "t", "h", ",", " ", "n", "u", "m", "p", "y", " ", "a", "s", " ", "n", "p", "\n", "f", "r", "o", "m", " ", ".", " ", "i", "m", "p", "o", "r", "t", " ", "x", "\n", "f", "r", "o", "m", " ", "c", "o", "l", "l", "e", "c", "t", "i", "o", "n", "s", " ", "i", "m", "p", "o", "r", "t", " ", "a", "b", "c", " ", "a", "s", " ", "c", "\n", "f", "r", "o", "m", " ", ".", ".", "p", "k", "g", " ", "i", "m", "p", "o", "r", "t", " ", "y", "\n">>, 4,
        <<Ast("Import", <<>>, 1, 1, <<Kid("names", Ast("alias", <<"o", "s", ".", "p", "a", "t", "h">>, 1, 1, <<>>)),
            Kid("names", AstX("alias", <<"n", "u", "m", "p", "y">>, <<<<"n", "p">>>>, 1, 1, 0, <<>>, <<>>, <<>>))>>),
         AstX("ImportFrom", <<>>, <<>>, 2, 2, 1, <<>>, <<>>, <<Kid("names", Ast("alias", <<"x">>, 2, 2, <<>>))>>),
         AstX("ImportFrom", <<>>, <<<<"c", "o", "l", "l", "e", "c", "t", "i", "o", "n", "s">>>>, 3, 3, 0, <<>>, <<>>, <<Kid("names", AstX("alias", <<"a", "b", "c">>, <<<<"c">>>>, 3, 3, 0, <<>>, <<>>, <<>>))>>),
         AstX("ImportFrom", <<>>, <<<<"p", "k", "g">>>>, 4, 4, 2, <<>>, <<>>, <<Kid("names", Ast("alias", <<"y">>, 4, 4, <<>>))>>)>>)

\* | x = y = 1
\* | z: int = 2
\* | a.b = 3
PY_ASSIGN ==
    Parsed(<<"x", " ", "=", " ", "y", " ", "=", " ", "1", "\n", "z", ":", " ", "i", "n", "t", " ", "=", " ", "2", "\n", "a", ".", "b", " ", "=", " ", "3", "\n">>, 3,
        <<Ast("Assign", <<>>, 1, 1, <<Kid("targets", Ast("Name", <<"x">>, 1, 1, <<Kid("ctx", Leaf("Store"))>>)),
            Kid("targets", Ast("Name", <<"y">>, 1, 1, <<Kid("ctx", Leaf("Store"))>>)),
            Kid("value", Ast("Constant", <<>>, 1, 1, <<>>))>>),
         Ast("AnnAssign", <<>>, 2, 2, <<Kid("target", Ast("Name", <<"z">>, 2, 2, <<Kid("ctx", Leaf("Store"))>>)),
            Kid("annotation", AstX("Name", <<"i", "n", "t">>, <<>>, 2, 2, 0, <<"i", "n", "t">>, <<>>, <<Kid("ctx", Leaf("Load"))>>)),
            Kid("value", Ast("Constant", <<>>, 2, 2, <<>>))>>),
         Ast("Assign", <<>>, 3, 3, <<Kid("targets", Ast("Attribute", <<"b">>, 3, 3, <<Kid("value", Ast("Name", <<"a">>, 3, 3, <<Kid("ctx", Leaf("Load"))>>)),
                Kid("ctx", Leaf("Store"))>>)),
            Kid("value", Ast("Constant", <<>>, 3, 3, <<>>))>>)>>)

\* | def broken(:
PY_BAD_SYNTAX ==
    Rejected(<<"d", "e", "f", " ", "b", "r", "o", "k", "e", "n", "(", ":", "\n">>, 1, <<"i", "n", "v", "a", "l", "i", "d", " ", "s", "y", "n", "t", "a", "x">>, 1, 12, <<"d", "e", "f", " ", "b", "r", "o", "k", "e", "n", "(", ":", "\n">>)

\* | x = 1 +
PY_BAD_TAIL ==
    Rejected(<<"x", " ", "=", " ", "1", " ", "+", "\n">>, 1, <<"i", "n", "v", "a", "l", "i", "d", " ", "s", "y", "n", "t", "a", "x">>, 1, 8, <<"x", " ", "=", " ", "1", " ", "+", "\n">>)

\* | x = --------...y
PY_DEEP ==
    TooDeep(Str4("x", " ", "=", " ") \o Dashes(DEEP_DASHES) \o <<"y", "\n">>, 1)

PySnippets ==
    {PY_HELLO,
     PY_PLAIN,
     PY_FOUR_IFS,
     PY_NESTED,
     PY_TRY_COMP,
     PY_DEFAULT,
     PY_ASYNC,
     PY_BUSY,
     PY_LONG_DOC,
     PY_CLASS,
     PY_IMPORTS,
     PY_ASSIGN,
     PY_BAD_SYNTAX,
     PY_BAD_TAIL,
     PY_DEEP}

\* The snippets a document is the concatenation of, in order.
RECURSIVE Decompose(_)
Decompose(code) ==
    IF code = <<>> THEN <<>>
    ELSE LET s == CHOOSE s \in PySnippets : StartsWith(code, s.text)
         IN  <<s>> \o Decompose(SubSeq(code, Len(s.text) + 1, Len(code)))

\* The node with its line numbers moved down by k lines.
RECURSIVE Shift(_, _)
Shift(node, k) ==
    [node EXCEPT !.lineno = IF @ > 0 THEN @ + k ELSE @,
                 !.end_lineno = IF @ > 0 THEN @ + k ELSE @,
                 !.kids = [i \in 1..Len(@) |-> Kid(@[i].field, Shift(@[i].node, k))]]

ShiftAll(body, k) == [i \in 1..Len(body) |-> Kid("body", Shift(body[i], k))]

ParseError(e, k) == [e EXCEPT !.lineno = @ + k]

\* The first snippet the parser rejects decides; a document it accepts can
\* still be too deep for the tree to be built.
RECURSIVE ParseFrom(_, _, _, _, _)
ParseFrom(snippets, i, offset, kids, deep) ==
    IF i > Len(snippets)
    THEN IF deep
         THEN [outcome |-> "RecursionError", tree |-> Leaf("Module"), error |-> NoSyntaxError]
         ELSE [outcome |-> "tree", tree |-> Ast("Module", <<>>, 0, 0, kids), error |-> NoSyntaxError]
    ELSE IF snippets[i].outcome = "SyntaxError"
    THEN [outcome |-> "SyntaxError", tree |-> Leaf("Module"), error |-> ParseError(snippets[i].error, offset)]
    ELSE ParseFrom(snippets, i + 1, offset + snippets[i].newlines,
                   kids \o ShiftAll(snippets[i].body, offset),
                   deep \/ snippets[i].outcome = "RecursionError")

\* ast.parse(code)
AstParse(code) == ParseFrom(Decompose(code), 1, 0, <<>>, FALSE)

\* ast.iter_child_nodes(node)
IterChildNodes(node) == [i \in 1..Len(node.kids) |-> node.kids[i].node]

\* ast.walk(node): the node and its descendants, breadth first
RECURSIVE WalkQueue(_)
WalkQueue(todo) ==
    IF todo = <<>> THEN <<>>
    ELSE <<Head(todo)>> \o WalkQueue(Tail(todo) \o IterChildNodes(Head(todo)))

AstWalk(node) == WalkQueue(<<node>>)

\* The nodes of one field of a node: node.body, node.args, [node.returns] ...
Field(node, field) ==
    LET Of(k) == k.field = field
    IN  [i \in 1..Len(SelectSeq(node.kids, Of)) |-> SelectSeq(node.kids, Of)[i].node]

\* ast.unparse(x) if x else None
UnparseOpt(nodes) == IF nodes = <<>> THEN None ELSE Some(nodes[1].text)

\* BasicAnalyzer.__init__
BasicAnalyzer(code, language) ==
    [code |-> code, language |-> language, lines |-> SplitLines(code)]

\* An exception that leaves the constructor called with the code: no instance
\* comes to be.
Raised(exception, code) == [raised |-> exception, code |-> code]

HasRaised(self) == "raised" \in DOMAIN self

\* PythonAnalyzer._parse_ast catches SyntaxError and nothing else.
ParseAst(code, parsed) ==
    IF parsed.outcome = "RecursionError" THEN Raised("RecursionError", code)
    ELSE [code |-> code, language |-> PYTHON_TAG, lines |-> SplitLines(code),
          ast_tree |-> IF parsed.outcome = "tree" THEN Some(parsed.tree) ELSE None,
          syntax_error |-> IF parsed.outcome = "SyntaxError" THEN Some(parsed.error) ELSE None]

\* PythonAnalyzer.__init__
PythonAnalyzer(code) == ParseAst(code, AstParse(code))

\* get_syntax_errors
GetSyntaxErrors(self) ==
    IF self.ast_tree = None /\ self.syntax_error # None
    THEN Some([message |-> self.syntax_error[1].msg, line |-> self.syntax_error[1].lineno,
               offset |-> self.syntax_error[1].offset, text |-> self.syntax_error[1].text])
    ELSE None

standard_libs ==
    {<<"o", "s">>, <<"s", "y", "s">>, <<"j", "s", "o", "n">>, <<"r", "e">>,
     <<"m", "a", "t", "h">>, <<"d", "a", "t", "e", "t", "i", "m", "e">>, <<"t", "i", "m", "e">>, <<"r", "a", "n", "d", "o", "m">>,
     <<"c", "o", "l", "l", "e", "c", "t", "i", "o", "n", "s">>, <<"i", "t", "e", "r", "t", "o", "o", "l", "s">>, <<"f", "u", "n", "c", "t", "o", "o", "l", "s">>, <<"t", "y", "p", "i", "n", "g">>,
     <<"p", "a", "t", "h", "l", "i", "b">>, <<"s", "u", "b", "p", "r", "o", "c", "e", "s", "s">>, <<"t", "h", "r", "e", "a", "d", "i", "n", "g">>, <<"m", "u", "l", "t", "i", "p", "r", "o", "c", "e", "s", "s", "i", "n", "g">>,
     <<"a", "s", "y", "n", "c", "i", "o">>, <<"s", "o", "c", "k", "e", "t">>, <<"h", "t", "t", "p">>, <<"u", "r", "l", "l", "i", "b">>,
     <<"e", "m", "a", "i", "l">>, <<"h", "t", "m", "l">>, <<"x", "m", "l">>, <<"l", "o", "g", "g", "i", "n", "g">>,
     <<"u", "n", "i", "t", "t", "e", "s", "t">>, <<"a", "r", "g", "p", "a", "r", "s", "e">>, <<"c", "o", "n", "f", "i", "g", "p", "a", "r", "s", "e", "r">>, <<"c", "s", "v">>,
     <<"s", "q", "l", "i", "t", "e", "3">>, <<"p", "i", "c", "k", "l", "e">>, <<"c", "o", "p", "y">>, <<"i", "o">>,
     <<"t", "e", "m", "p", "f", "i", "l", "e">>, <<"s", "h", "u", "t", "i", "l">>, <<"g", "l", "o", "b">>, <<"h", "a", "s", "h", "l", "i", "b">>,
     <<"h", "m", "a", "c">>, <<"s", "e", "c", "r", "e", "t", "s">>, <<"b", "a", "s", "e", "6", "4">>, <<"b", "i", "n", "a", "s", "c", "i", "i">>,
     <<"s", "t", "r", "u", "c", "t">>, <<"c", "o", "d", "e", "c", "s">>, <<"s", "t", "r", "i", "n", "g">>, <<"t", "e", "x", "t", "w", "r", "a", "p">>,
     <<"d", "i", "f", "f", "l", "i", "b">>, <<"p", "p", "r", "i", "n", "t">>, <<"e", "n", "u", "m">>, <<"a", "b", "c">>,
     <<"c", "o", "n", "t", "e", "x", "t", "l", "i", "b">>, <<"d", "a", "t", "a", "c", "l", "a", "s", "s", "e", "s">>, <<"i", "n", "s", "p", "e", "c", "t">>, <<"t", "r", "a", "c", "e", "b", "a", "c", "k">>,
     <<"w", "a", "r", "n", "i", "n", "g", "s">>, <<"w", "e", "a", "k", "r", "e", "f">>, <<"t", "y", "p", "e", "s">>, <<"o", "p", "e", "r", "a", "t", "o", "r">>}

FUNCTION_DEFS == {"FunctionDef", "AsyncFunctionDef"}

\* name.split(".")[0]
FirstSegment(name) ==
    IF \E i \in 1..Len(name) : name[i] = "."
    THEN SubSeq(name, 1, (CHOOSE i \in 1..Len(name) : name[i] = "." /\ \A j \in 1..(i - 1) : name[j] # ".") - 1)
    ELSE name

ImportCategory(module, level) ==
    IF level > 0 THEN "local"
    ELSE IF FirstSegment(module) \in standard_libs THEN "standard" ELSE "third_party"

\* The entries one node adds to the imports, each with its category.
ImportEntries(node) ==
    IF node.type = "Import"
    THEN [i \in 1..Len(Field(node, "names")) |->
            [category |-> ImportCategory(Field(node, "names")[i].name, 0),
             entry |-> [module |-> Field(node, "names")[i].name,
                        alias |-> Field(node, "names")[i].opt, line |-> node.lineno]]]
    ELSE IF node.type = "ImportFrom" /\ node.opt # None /\ node.opt # Some(<<>>)
    THEN [i \in 1..Len(Field(node, "names")) |->
            [category |-> ImportCategory(node.opt[1], node.count),
             entry |-> [module |-> node.opt[1], name |-> Field(node, "names")[i].name,
                        alias |-> Field(node, "names")[i].opt, line |-> node.lineno]]]
    ELSE <<>>

RECURSIVE AllImportEntries(_, _)
AllImportEntries(nodes, i) ==
    IF i > Len(nodes) THEN <<>>
    ELSE ImportEntries(nodes[i]) \o AllImportEntries(nodes, i + 1)

ImportsIn(entries, category) ==
    LET Of(e) == e.category = category
    IN  [i \in 1..Len(SelectSeq(entries, Of)) |-> SelectSeq(entries, Of)[i].entry]

ImportsOf(entries) ==
    [standard |-> ImportsIn(entries, "standard"),
     third_party |-> ImportsIn(entries, "third_party"),
     local |-> ImportsIn(entries, "local")]

\* get_imports
GetImports(self) ==
    IF self.ast_tree = None THEN ImportsOf(<<>>)
    ELSE ImportsOf(AllImportEntries(AstWalk(self.ast_tree[1]), 1))

\* str(decorator) of a node of another class: "<ast.X object at 0x...>"; the
\* address is left out.
OBJECT_REPR == <<"<", "a", "s", "t", ">">>

\* _get_decorator_name
RECURSIVE GetDecoratorName(_)
GetDecoratorName(decorator) ==
    IF decorator.type = "Name" THEN decorator.name
    ELSE IF decorator.type = "Attribute"
    THEN GetDecoratorName(Field(decorator, "value")[1]) \o <<".">> \o decorator.name
    ELSE IF decorator.type = "Call" THEN GetDecoratorName(Field(decorator, "func")[1])
    ELSE OBJECT_REPR

DecoratorNames(node) ==
    [i \in 1..Len(Field(node, "decorator_list")) |->
        GetDecoratorName(Field(node, "decorator_list")[i])]

BRANCHING == {"If", "While", "For", "ExceptHandler"}

\* What one node of the walk adds to the complexity.
ComplexityOf(child) ==
    IF child.type \in BRANCHING THEN 1
    ELSE IF child.type = "BoolOp" THEN child.count - 1
    ELSE IF child.type = "comprehension" THEN 1
    ELSE 0

RECURSIVE SumComplexity(_, _)
SumComplexity(nodes, i) ==
    IF i > Len(nodes) THEN 0
    ELSE ComplexityOf(nodes[i]) + SumComplexity(nodes, i + 1)

\* (variant: the count starts at 0)
ComplexityFromZero(node) == SumComplexity(AstWalk(node), 1)

\* _calculate_function_complexity
CalculateFunctionComplexity(node) == 1 + SumComplexity(AstWalk(node), 1)

ELLIPSIS == <<".", ".", ".">>

\* docstring[:100] + "..." if docstring and len(docstring) > 100 else docstring
ShortDocstring(docstring) ==
    IF docstring # None /\ docstring # Some(<<>>) /\ Len(docstring[1]) > 100
    THEN Some(Prefix(docstring[1], 100) \o ELLIPSIS)
    ELSE docstring

ArgumentsOf(args) ==
    [i \in 1..Len(args) |->
        [name |-> args[i].name, annotation |-> UnparseOpt(Field(args[i], "annotation"))]]

FunctionRecord(node) ==
    [name |-> node.name,
     line |-> node.lineno,
     end_line |-> node.end_lineno,
     is_async |-> node.type = "AsyncFunctionDef",
     decorators |-> DecoratorNames(node),
     arguments |-> ArgumentsOf(Field(Field(node, "args")[1], "args")),
     returns |-> UnparseOpt(Field(node, "returns")),
     docstring |-> ShortDocstring(node.doc),
     has_docstring |-> node.doc # None,
     complexity |-> CalculateFunctionComplexity(node)]

FunctionsAmong(nodes) ==
    LET Is(n) == n.type \in FUNCTION_DEFS
    IN  [i \in 1..Len(SelectSeq(nodes, Is)) |-> FunctionRecord(SelectSeq(nodes, Is)[i])]

\* get_functions
GetFunctions(self) ==
    IF self.ast_tree = None THEN <<>>
    ELSE FunctionsAmong(AstWalk(self.ast_tree[1]))

MethodsOf(body) ==
    LET Is(n) == n.type \in FUNCTION_DEFS
    IN  [i \in 1..Len(SelectSeq(body, Is)) |->
            [name |-> SelectSeq(body, Is)[i].name, line |-> SelectSeq(body, Is)[i].lineno,
             is_async |-> SelectSeq(body, Is)[i].type = "AsyncFunctionDef"]]

ClassRecord(node) ==
    [name |-> node.name,
     line |-> node.lineno,
     end_line |-> node.end_lineno,
     bases |-> [i \in 1..Len(Field(node, "bases")) |-> Field(node, "bases")[i].text],
     decorators |-> DecoratorNames(node),
     methods |-> MethodsOf(Field(node, "body")),
     method_count |-> Len(MethodsOf(Field(node, "body"))),
     docstring |-> ShortDocstring(node.doc),
     has_docstring |-> node.doc # None]

ClassesAmong(nodes) ==
    LET Is(n) == n.type = "ClassDef"
    IN  [i \in 1..Len(SelectSeq(nodes, Is)) |-> ClassRecord(SelectSeq(nodes, Is)[i])]

\* get_classes
GetClasses(self) ==
    IF self.ast_tree = None THEN <<>>
    ELSE ClassesAmong(AstWalk(self.ast_tree[1]))

NameTargets(node) ==
    LET Is(n) == n.type = "Name"
    IN  [i \in 1..Len(SelectSeq(Field(node, "targets"), Is)) |->
            [name |-> SelectSeq(Field(node, "targets"), Is)[i].name, line |-> node.lineno,
             type_hint |-> None]]

VariablesOf(node) ==
    IF node.type = "Assign" THEN NameTargets(node)
    ELSE IF node.type = "AnnAssign" /\ Field(node, "target")[1].type = "Name"
    THEN <<[name |-> Field(node, "target")[1].name, line |-> node.lineno,
            type_hint |-> UnparseOpt(Field(node, "annotation"))]>>
    ELSE <<>>

RECURSIVE VariablesAmong(_, _)
VariablesAmong(body, i) ==
    IF i > Len(body) THEN <<>>
    ELSE VariablesOf(body[i]) \o VariablesAmong(body, i + 1)

\* get_variables
GetVariables(self) ==
    IF self.ast_tree = None THEN <<>>
    ELSE VariablesAmong(Field(self.ast_tree[1], "body"), 1)

RECURSIVE SumField(_, _, _)
SumField(records, field, i) ==
    IF i > Len(records) THEN 0 ELSE records[i][field] + SumField(records, field, i + 1)

RECURSIVE MaxField(_, _, _, _)
MaxField(records, field, i, best) ==
    IF i > Len(records) THEN best
    ELSE MaxField(records, field, i + 1, IF records[i][field] > best THEN records[i][field] ELSE best)

WithoutDocstring(records) ==
    LET Without(r) == ~r.has_docstring
    IN  Len(SelectSeq(records, Without))

HighComplexity(functions) ==
    LET High(f) == f.complexity > 10
    IN  [i \in 1..Len(SelectSeq(functions, High)) |-> SelectSeq(functions, High)[i].name]

ComplexityMetricsOf(functions, classes) ==
    [total_functions |-> Len(functions),
     total_classes |-> Len(classes),
     total_methods |-> SumField(classes, "method_count", 1),
     average_complexity |-> Ratio(SumField(functions, "complexity", 1), Max(Len(functions), 1)),
     max_complexity |-> MaxField(functions, "complexity", 1, 0),
     high_complexity_functions |-> HighComplexity(functions),
     functions_without_docstring |-> WithoutDocstring(functions),
     classes_without_docstring |-> WithoutDocstring(classes)]

\* get_complexity_metrics
GetComplexityMetrics(self) == ComplexityMetricsOf(GetFunctions(self), GetClasses(self))

(***************************************************************************)
(* The grammar-aware analyzer at work: a document of up to MaxPyStmts       *)
(* snippets is handed to PythonAnalyzer, and the structural queries are     *)
(* made of the instance in any order.                                       *)
(***************************************************************************)

\* The number of snippets of the largest document.
MaxPyStmts == 2

RECURSIVE PyDocuments(_)
PyDocuments(n) ==
    IF n = 0 THEN {<<>>}
    ELSE PyDocuments(n - 1) \cup
         {d \o s.text : d \in PyDocuments(n - 1), s \in PySnippets}

Answer(query, value) == [query |-> query, value |-> value]

PyInit ==
    /\ \E code \in PyDocuments(MaxPyStmts) : py = PythonAnalyzer(code)
    /\ py_result = NoResult
    /\ basic = Idle /\ basic_result = NoResult
    /\ SecIdle /\ QualIdle /\ DraftIdle /\ RunIdle /\ ScanIdle /\ TallyIdle /\ AppIdle

PyGetSyntaxErrors ==
    /\ ~HasRaised(py)
    /\ py_result' = Answer("get_syntax_errors", GetSyntaxErrors(py))
    /\ UNCHANGED <<sec, sec_results, sec_previous, qual, qual_results, draft, py, basic, basic_result, jobs, shared, scan, tally, app>>

PyGetImports ==
    /\ ~HasRaised(py)
    /\ py_result' = Answer("get_imports", GetImports(py))
    /\ UNCHANGED <<sec, sec_results, sec_previous, qual, qual_results, draft, py, basic, basic_result, jobs, shared, scan, tally, app>>

PyGetFunctions ==
    /\ ~HasRaised(py)
    /\ py_result' = Answer("get_functions", GetFunctions(py))
    /\ UNCHANGED <<sec, sec_results, sec_previous, qual, qual_results, draft, py, basic, basic_result, jobs, shared, scan, tally, app>>

PyGetClasses ==
    /\ ~HasRaised(py)
    /\ py_result' = Answer("get_classes", GetClasses(py))
    /\ UNCHANGED <<sec, sec_results, sec_previous, qual, qual_results, draft, py, basic, basic_result, jobs, shared, scan, tally, app>>

PyGetVariables ==
    /\ ~HasRaised(py)
    /\ py_result' = Answer("get_variables", GetVariables(py))
    /\ UNCHANGED <<sec, sec_results, sec_previous, qual, qual_results, draft, py, basic, basic_result, jobs, shared, scan, tally, app>>

PyGetComplexityMetrics ==
    /\ ~HasRaised(py)
    /\ py_result' = Answer("get_complexity_metrics", GetComplexityMetrics(py))
    /\ UNCHANGED <<sec, sec_results, sec_previous, qual, qual_results, draft, py, basic, basic_result, jobs, shared, scan, tally, app>>

PyNext ==
    \/ PyGetSyntaxErrors
    \/ PyGetImports
    \/ PyGetFunctions
    \/ PyGetClasses
    \/ PyGetVariables
    \/ PyGetComplexityMetrics

SpecPython == PyInit /\ [][PyNext]_vars

(***************************************************************************)
(* Properties of the grammar-aware analyzer                                *)
(***************************************************************************)

PyAsked(query) == py # Idle /\ py_result # NoResult /\ py_result.query = query

\* The definitions get_functions reports, in the order of its records.
FunctionNodes(self) ==
    LET Is(n) == n.type \in FUNCTION_DEFS
    IN  IF self.ast_tree = None THEN <<>> ELSE SelectSeq(AstWalk(self.ast_tree[1]), Is)

\* Conditional branches, loops (an asynchronous loop is one) and exception handlers.
RULE_STATEMENTS == {"If", "While", "For", "AsyncFor", "ExceptHandler"}

HasCounted(nodes) ==
    \E i \in 1..Len(nodes) : nodes[i].type \in RULE_STATEMENTS \cup {"BoolOp", "comprehension"}

\* The statements of the body of a definition and everything inside them.
BodyNodes(node) == WalkQueue(Field(node, "body"))

\* C11 as stated: every function record has complexity at least 1, and a
\* function whose body holds no branch, loop, exception handler, boolean
\* operator or comprehension has complexity exactly 1.
C11_BodyWithoutBranches ==
    PyAsked("get_functions") =>
        \A i \in 1..Len(py_result.value) :
            /\ py_result.value[i].complexity >= 1
            /\ ~HasCounted(BodyNodes(FunctionNodes(py)[i])) => py_result.value[i].complexity = 1

\* C11: every function record returned by get_functions has complexity at
\* least 1, and a function whose definition (decorators, parameter defaults,
\* annotations and body: its whole subtree) holds no branch, loop, exception
\* handler, boolean operator or comprehension has complexity exactly 1.
C11_SubtreeWithoutBranches ==
    PyAsked("get_functions") =>
        \A i \in 1..Len(py_result.value) :
            /\ py_result.value[i].complexity >= 1
            /\ ~HasCounted(AstWalk(FunctionNodes(py)[i])) => py_result.value[i].complexity = 1

\* get_functions has reported a function without any counted construct next to
\* one with some.
C11_Witness ==
    /\ PyAsked("get_functions")
    /\ \E i, j \in 1..Len(py_result.value) :
          /\ ~HasCounted(AstWalk(FunctionNodes(py)[i]))
          /\ py_result.value[i].complexity = 1
          /\ HasCounted(AstWalk(FunctionNodes(py)[j]))
          /\ py_result.value[j].complexity > 1

RECURSIVE RuleSum(_, _)
RuleSum(nodes, i) ==
    IF i > Len(nodes) THEN 0
    ELSE (IF nodes[i].type \in RULE_STATEMENTS THEN 1 ELSE 0)
         + (IF nodes[i].type = "BoolOp" THEN nodes[i].count - 1 ELSE 0)
         + (IF nodes[i].type = "comprehension" THEN 1 ELSE 0)
         + RuleSum(nodes, i + 1)

\* C12: the complexity of a function is 1 + the number of conditional
\* branches, loops and exception handlers anywhere in its subtree (nested
\* functions included) + the sum over the boolean expressions of (operands - 1)
\* + the number of comprehension clauses; four sequential ifs give 5.
C12_AdditiveRule ==
    PyAsked("get_functions") =>
        /\ \A i \in 1..Len(py_result.value) :
              py_result.value[i].complexity = 1 + RuleSum(AstWalk(FunctionNodes(py)[i]), 1)
        /\ py.code = PY_FOUR_IFS.text => py_result.value[1].complexity = 5

\* The rule holds of every function without an asynchronous loop.
AdditiveRuleOfCountedLoops ==
    PyAsked("get_functions") =>
        /\ \A i \in 1..Len(py_result.value) :
              (\A k \in 1..Len(AstWalk(FunctionNodes(py)[i])) : AstWalk(FunctionNodes(py)[i])[k].type # "AsyncFor")
              => py_result.value[i].complexity = 1 + RuleSum(AstWalk(FunctionNodes(py)[i]), 1)
        /\ py.code = PY_FOUR_IFS.text => py_result.value[1].complexity = 5

FailsToParse(code) == AstParse(code).outcome # "tree"

EMPTY_IMPORTS == [standard |-> <<>>, third_party |-> <<>>, local |-> <<>>]

EMPTY_METRICS ==
    [total_functions |-> 0, total_classes |-> 0, total_methods |-> 0,
     average_complexity |-> Ratio(0, 1), max_complexity |-> 0,
     high_complexity_functions |-> <<>>, functions_without_docstring |-> 0,
     classes_without_docstring |-> 0]

\* What the queries of an instance answer when its document failed to parse
\* and when it parsed.
ParseFailureDegrades ==
    (py # Idle /\ ~HasRaised(py) /\ py_result # NoResult) =>
        /\ (FailsToParse(py.code) /\ py_result.query = "get_syntax_errors") =>
              /\ Len(py_result.value) = 1
              /\ DOMAIN py_result.value[1] = {"message", "line", "offset", "text"}
              /\ py_result.value[1].line \in 1..Len(py.lines)
        /\ (FailsToParse(py.code) /\ py_result.query = "get_imports") => py_result.value = EMPTY_IMPORTS
        /\ (FailsToParse(py.code) /\ py_result.query \in {"get_functions", "get_classes", "get_variables"}) => py_result.value = <<>>
        /\ (FailsToParse(py.code) /\ py_result.query = "get_complexity_metrics") => py_result.value = EMPTY_METRICS
        /\ (~FailsToParse(py.code) /\ py_result.query = "get_syntax_errors") => py_result.value = None

\* C13: when the document fails to parse, constructing the analyzer does not
\* raise, get_syntax_errors returns a record of message, line, offset and
\* text, and every structural query returns its empty default; when the
\* document parses, get_syntax_errors returns no error.
C13_ParseFailureTolerated ==
    /\ (py # Idle /\ FailsToParse(py.code)) => ~HasRaised(py)
    /\ ParseFailureDegrades

\* The import and from-import statements of the parsed tree, in walk order.
ImportStatements(self) ==
    LET Is(n) == n.type \in {"Import", "ImportFrom"}
    IN  IF self.ast_tree = None THEN <<>> ELSE SelectSeq(AstWalk(self.ast_tree[1]), Is)

\* The module a statement resolves a name from: the imported module itself,
\* or the module of the from-import (none in "from . import x").
ModuleOf(node, i) ==
    IF node.type = "Import" THEN Some(Field(node, "names")[i].name) ELSE node.opt

\* The category of a statement by the rule: a relative from-import is local,
\* otherwise the root of the module decides.
CategoryByRule(node, i) ==
    IF node.type = "ImportFrom" /\ node.count > 0 THEN "local"
    ELSE IF ModuleOf(node, i) # None /\ FirstSegment(ModuleOf(node, i)[1]) \in standard_libs
    THEN "standard"
    ELSE "third_party"

\* One imported name: the line of its statement and the name.
Imported(line, name) == [line |-> line, name |-> name]

\* The names the statements import that the rule puts into the category.
RECURSIVE ImportedBy(_, _, _, _)
ImportedBy(statements, category, s, i) ==
    IF s > Len(statements) THEN <<>>
    ELSE IF i > Len(Field(statements[s], "names")) THEN ImportedBy(statements, category, s + 1, 1)
    ELSE (IF CategoryByRule(statements[s], i) = category
          THEN <<Imported(statements[s].lineno, Field(statements[s], "names")[i].name)>>
          ELSE <<>>)
         \o ImportedBy(statements, category, s, i + 1)

\* The names the entries of a category record.
Recorded(entries) ==
    [i \in 1..Len(entries) |->
        Imported(entries[i].line,
                 IF "name" \in DOMAIN entries[i] THEN entries[i].name ELSE entries[i].module)]

HasModule(node) == node.type = "Import" \/ node.opt # None

\* C21: get_imports records one entry per imported name for every import and
\* from-import statement of the parsed tree, each entry in exactly one of the
\* categories standard, third_party, local: a from-import with a relative
\* level > 0 is local, otherwise the entry is standard when the root of the
\* module is in the allow-list and third_party when it is not.
C21_OneEntryPerName ==
    PyAsked("get_imports") =>
        \A category \in {"standard", "third_party", "local"} :
            Recorded(py_result.value[category]) = ImportedBy(ImportStatements(py), category, 1, 1)

\* The entries are as the rule says for the statements that name a module.
EntriesOfNamedModules ==
    PyAsked("get_imports") =>
        \A category \in {"standard", "third_party", "local"} :
            Recorded(py_result.value[category])
                = ImportedBy(SelectSeq(ImportStatements(py), HasModule), category, 1, 1)

\* get_imports has answered for a document with entries in all three categories.
ImportsInEveryCategory ==
    /\ PyAsked("get_imports")
    /\ \A category \in {"standard", "third_party", "local"} : Len(py_result.value[category]) > 0

(***************************************************************************)
(* code_analyzer.py: the queries of BasicAnalyzer.                         *)
(***************************************************************************)

\* len(s.split()): the maximal runs of characters that are not whitespace
WordCount(s) ==
    Cardinality({i \in 1..Len(s) :
                    s[i] \notin WHITESPACE /\ (i = 1 \/ s[i - 1] \in WHITESPACE)})

RECURSIVE TotalLength(_, _)
TotalLength(lines, i) ==
    IF i > Len(lines) THEN 0 ELSE Len(lines[i]) + TotalLength(lines, i + 1)

\* max(values, default=0) and min(values, default=0)
MaxOrZero(values) == IF values = {} THEN 0 ELSE CHOOSE v \in values : \A w \in values : w <= v

MinOrZero(values) == IF values = {} THEN 0 ELSE CHOOSE v \in values : \A w \in values : v <= w

\* (variant: the shortest of all lines)
MinLengthOfAll(lines) == MinOrZero({Len(lines[i]) : i \in 1..Len(lines)})

\* min((len(line) for line in self.lines if line.strip()), default=0)
MinLineLength(lines) ==
    MinOrZero({Len(lines[i]) : i \in {j \in 1..Len(lines) : Strip(lines[j]) # <<>>}})

\* get_basic_stats
GetBasicStats(self) ==
    [total_lines |-> Len(self.lines),
     total_characters |-> Len(self.code),
     total_words |-> WordCount(self.code),
     non_empty_lines |-> Cardinality({i \in 1..Len(self.lines) : Strip(self.lines[i]) # <<>>}),
     average_line_length |-> Ratio(TotalLength(self.lines, 1), Max(Len(self.lines), 1)),
     max_line_length |-> MaxOrZero({Len(self.lines[i]) : i \in 1..Len(self.lines)}),
     min_line_length |-> MinLineLength(self.lines)]

BUCKETS == <<"0-20", "21-40", "41-60", "61-80", "81-100", "100+">>

\* (variant: the upper edge of a bucket belongs to the next one)
BucketBelow(length) ==
    IF length < 20 THEN "0-20"
    ELSE IF length < 40 THEN "21-40"
    ELSE IF length < 60 THEN "41-60"
    ELSE IF length < 80 THEN "61-80"
    ELSE IF length < 100 THEN "81-100"
    ELSE "100+"

\* The bucket the if / elif chain puts a line of the length in.
BucketOf(length) ==
    IF length <= 20 THEN "0-20"
    ELSE IF length <= 40 THEN "21-40"
    ELSE IF length <= 60 THEN "41-60"
    ELSE IF length <= 80 THEN "61-80"
    ELSE IF length <= 100 THEN "81-100"
    ELSE "100+"

RECURSIVE Distribute(_, _, _)
Distribute(lines, i, distribution) ==
    IF i > Len(lines) THEN distribution
    ELSE Distribute(lines, i + 1,
                    [distribution EXCEPT ![BucketOf(Len(lines[i]))] = @ + 1])

\* get_line_length_distribution
GetLineLengthDistribution(self) ==
    Distribute(self.lines, 1, [b \in {BUCKETS[k] : k \in 1..Len(BUCKETS)} |-> 0])

\* line_locations after the loop over the lines, from line i on.
RECURSIVE LineLocations(_, _, _, _)
LineLocations(lines, min_length, i, line_locations) ==
    IF i > Len(lines) THEN line_locations
    ELSE IF Len(Strip(lines[i])) >= min_length
    THEN LineLocations(lines, min_length, i + 1,
            DictSet(line_locations, Strip(lines[i]),
                    (IF Strip(lines[i]) \in DictKeys(line_locations)
                     THEN DictGet(line_locations, Strip(lines[i])) ELSE <<>>) \o <<i>>))
    ELSE LineLocations(lines, min_length, i + 1, line_locations)

\* line[:80] + "..." if len(line) > 80 else line
ShortContent(line) == IF Len(line) > 80 THEN Prefix(line, 80) \o ELLIPSIS ELSE line

RECURSIVE DuplicatesOf(_, _)
DuplicatesOf(line_locations, i) ==
    IF i > Len(line_locations) THEN <<>>
    ELSE (IF Len(line_locations[i].value) > 1
          THEN <<[content |-> ShortContent(line_locations[i].key),
                  occurrences |-> Len(line_locations[i].value),
                  lines |-> line_locations[i].value]>>
          ELSE <<>>)
         \o DuplicatesOf(line_locations, i + 1)

\* The group goes behind every group of as many occurrences or more.
InsertByOccurrences(sorted, group) ==
    LET before == Cardinality({k \in 1..Len(sorted) : sorted[k].occurrences >= group.occurrences})
    IN  SubSeq(sorted, 1, before) \o <<group>> \o SubSeq(sorted, before + 1, Len(sorted))

\* (variant: the groups stay in the order of their first lines)
RECURSIVE Unsorted(_, _, _)
Unsorted(duplicates, i, sorted) ==
    IF i > Len(duplicates) THEN sorted
    ELSE Unsorted(duplicates, i + 1, Append(sorted, duplicates[i]))

\* sorted(duplicates, key=lambda x: x["occurrences"], reverse=True): stable
RECURSIVE SortedByOccurrences(_, _, _)
SortedByOccurrences(duplicates, i, sorted) ==
    IF i > Len(duplicates) THEN sorted
    ELSE SortedByOccurrences(duplicates, i + 1, InsertByOccurrences(sorted, duplicates[i]))

\* find_duplicates
FindDuplicates(self, min_length) ==
    SortedByOccurrences(DuplicatesOf(LineLocations(self.lines, min_length, 1, <<>>), 1), 1, <<>>)

\* find_patterns: (?<![a-zA-Z_])(-?\d+\.?\d*)(?![a-zA-Z_\d])
NUMBER_RE ==
    NotBehind(ASCII_LOWER \cup ASCII_UPPER \cup {"_"}) \o (Opt(In({"-"})) \o Plus(In(DIGITS)) \o Opt(In({"."})) \o Star(In(DIGITS))) \o NotAhead(In(ASCII_LOWER \cup ASCII_UPPER \cup DIGITS \cup {"_"}))

DigitValue(c) == CHOOSE v \in 0..9 : <<"0", "1", "2", "3", "4", "5", "6", "7", "8", "9">>[v + 1] = c

RECURSIVE DigitsValue(_, _)
DigitsValue(digits, value) ==
    IF digits = <<>> THEN value
    ELSE DigitsValue(Tail(digits), 10 * value + DigitValue(Head(digits)))

\* The whole part of the digits, up to the point at position dot, is one of
\* the values and the fraction behind it is zero.
PlainValue(digits, dot, values) ==
    /\ \A i \in (dot + 1)..Len(digits) : digits[i] = "0"
    /\ DigitsValue(SubSeq(digits, 1, dot - 1), 0) \in values

PlainDigits(digits, values) ==
    PlainValue(digits, MinOf({i \in 1..(Len(digits) + 1) : i = Len(digits) + 1 \/ digits[i] = "."}), values)

\* float(num) in (0, 1, -1, 2, 10, 100), for a numeral -?\d+\.?\d* of fewer
\* digits than a float holds exactly
IsPlainNumber(num) ==
    IF Head(num) = "-" THEN PlainDigits(Tail(num), {0, 1})
    ELSE PlainDigits(num, {0, 1, 2, 10, 100})

\* The entries one line adds to magic_numbers, from its k-th number on.
RECURSIVE NumbersOnLine(_, _, _, _)
NumbersOnLine(i, line, numbers, k) ==
    IF k > Len(numbers) THEN <<>>
    ELSE (IF IsPlainNumber(Slice(line, numbers[k][1], numbers[k][2])) THEN <<>>
          ELSE <<[line |-> i, value |-> Slice(line, numbers[k][1], numbers[k][2]),
                  context |-> Prefix(Strip(line), 50)]>>)
         \o NumbersOnLine(i, line, numbers, k + 1)

RECURSIVE FindMagicNumbers(_, _)
FindMagicNumbers(lines, i) ==
    IF i > Len(lines) THEN <<>>
    ELSE (IF StartsWithAny(Strip(lines[i]), {<<"#">>, <<"/", "/">>, <<"/", "*">>, <<"*">>})
          THEN <<>>
          ELSE NumbersOnLine(i, lines[i], FindIter(NUMBER_RE, lines[i], FALSE), 1))
         \o FindMagicNumbers(lines, i + 1)

BlankRun(blank_start, end_line, blank_count) ==
    [start_line |-> blank_start, end_line |-> end_line, count |-> blank_count]

\* The loop over the lines that collects consecutive_blank_lines, from line i on.
RECURSIVE ConsecutiveBlankLines(_, _, _, _)
ConsecutiveBlankLines(lines, i, blank_count, blank_start) ==
    IF i > Len(lines) THEN <<>>
    ELSE IF Strip(lines[i]) = <<>>
    THEN ConsecutiveBlankLines(lines, i + 1, blank_count + 1, IF blank_count = 0 THEN i ELSE blank_start)
    ELSE (IF blank_count > 2 THEN <<BlankRun(blank_start, i - 1, blank_count)>> ELSE <<>>)
         \o ConsecutiveBlankLines(lines, i + 1, 0, blank_start)

\* find_patterns
FindPatterns(self) ==
    [magic_numbers |-> FindMagicNumbers(self.lines, 1),
     hardcoded_strings |-> <<>>,
     empty_blocks |-> <<>>,
     consecutive_blank_lines |-> ConsecutiveBlankLines(self.lines, 1, 0, 0)]

(***************************************************************************)
(* The basic analyzer at work.  A document is a few lines of text, blank    *)
(* lines and repeated lines among them, or one or two lines of a length at  *)
(* the edge of a histogram bucket or with numerals in them.  The queries are *)
(* made in the order run_full_analysis makes them.                          *)
(***************************************************************************)

BASIC_BLANK == <<>>

BASIC_SPACES == <<" ", " ">>

\* | total = total + 42
BASIC_TOTAL == <<"t", "o", "t", "a", "l", " ", "=", " ", "t", "o", "t", "a", "l", " ", "+", " ", "4", "2">>

\* the same line, indented and with a trailing space
BASIC_TOTAL_INDENTED == <<" ", " ", " ", " ">> \o BASIC_TOTAL \o <<" ">>

\* | return 3.5 * x1 - 10
BASIC_RETURN == <<"r", "e", "t", "u", "r", "n", " ", "3", ".", "5", " ", "*", " ", "x", "1", " ", "-", " ", "1", "0">>

\* | k = -1 + 007 - 100.0 + 2. + -2
BASIC_NUMERALS == <<"k", " ", "=", " ", "-", "1", " ", "+", " ", "0", "0", "7", " ", "-", " ", "1", "0", "0", ".", "0", " ", "+", " ", "2", ".", " ", "+", " ", "-", "2">>

\* | # 42 in a comment
BASIC_COMMENT == <<"#", " ", "4", "2", " ", "i", "n", " ", "a", " ", "c", "o", "m", "m", "e", "n", "t">>

\* | v1_2 = 12a + 1.5x
BASIC_SUFFIXED == <<"v", "1", "_", "2", " ", "=", " ", "1", "2", "a", " ", "+", " ", "1", ".", "5", "x">>

\* | print('hello')
BASIC_HELLO == <<"p", "r", "i", "n", "t", "(", "'", "h", "e", "l", "l", "o", "'", ")">>

RunLines == {BASIC_BLANK, BASIC_SPACES, BASIC_TOTAL, BASIC_TOTAL_INDENTED, BASIC_RETURN}

\* A line of n characters.
LineOfLength(n) == [i \in 1..n |-> "a"]

EdgeLines ==
    {LineOfLength(n) : n \in {0, 20, 21, 40, 41, 60, 61, 80, 81, 100, 101}}
    \cup {BASIC_NUMERALS, BASIC_COMMENT, BASIC_SUFFIXED, BASIC_HELLO}

\* The number of lines of the largest document of blank and repeated lines.
MaxBasicLines == 5

RECURSIVE LineSequences(_, _)
LineSequences(lines, n) ==
    IF n = 0 THEN {<<>>}
    ELSE LineSequences(lines, n - 1) \cup
         {Append(d, l) : d \in LineSequences(lines, n - 1), l \in lines}

BasicDocuments ==
    {JoinLines(d) : d \in LineSequences(RunLines, MaxBasicLines) \cup LineSequences(EdgeLines, 2)}

MinLengths == {0, 10, 21}

BasicAsked(query) == basic # Idle /\ basic_result # NoResult /\ basic_result.query = query

BasicInit ==
    /\ \E code \in BasicDocuments : basic = BasicAnalyzer(code, UNKNOWN_TAG)
    /\ basic_result = NoResult
    /\ PyIdle
    /\ SecIdle /\ QualIdle /\ DraftIdle /\ RunIdle /\ ScanIdle /\ TallyIdle /\ AppIdle

BasicGetBasicStats ==
    /\ basic_result = NoResult
    /\ basic_result' = Answer("get_basic_stats", GetBasicStats(basic))
    /\ UNCHANGED <<sec, sec_results, sec_previous, qual, qual_results, draft, py, py_result, basic, jobs, shared, scan, tally, app>>

BasicGetLineLengthDistribution ==
    /\ BasicAsked("get_basic_stats")
    /\ basic_result' = Answer("get_line_length_distribution", GetLineLengthDistribution(basic))
    /\ UNCHANGED <<sec, sec_results, sec_previous, qual, qual_results, draft, py, py_result, basic, jobs, shared, scan, tally, app>>

BasicFindDuplicates ==
    /\ BasicAsked("find_patterns")
    /\ \E min_length \in MinLengths :
          basic_result' = [query |-> "find_duplicates", min_length |-> min_length,
                           value |-> FindDuplicates(basic, min_length)]
    /\ UNCHANGED <<sec, sec_results, sec_previous, qual, qual_results, draft, py, py_result, basic, jobs, shared, scan, tally, app>>

BasicFindPatterns ==
    /\ BasicAsked("get_line_length_distribution")
    /\ basic_result' = Answer("find_patterns", FindPatterns(basic))
    /\ UNCHANGED <<sec, sec_results, sec_previous, qual, qual_results, draft, py, py_result, basic, jobs, shared, scan, tally, app>>

BasicNext ==
    \/ BasicGetBasicStats
    \/ BasicGetLineLengthDistribution
    \/ BasicFindDuplicates
    \/ BasicFindPatterns

SpecBasic == BasicInit /\ [][BasicNext]_vars

(***************************************************************************)
(* Properties of the basic analyzer                                        *)
(***************************************************************************)

LineFeeds(code) == Cardinality({i \in 1..Len(code) : code[i] = "\n"})

\* The line has a character that is not whitespace.
HasInk(line) == \E i \in 1..Len(line) : line[i] \notin WHITESPACE

\* C14: total_lines is the number of segments the line feeds split the text
\* into (print('hello') and a line feed: 2 lines, 1 of them not empty);
\* non_empty_lines is at most total_lines; min_line_length is the least length
\* of the lines that are not blank, and 0 when there is none.
C14_BasicStats ==
    BasicAsked("get_basic_stats") =>
        /\ basic_result.value.total_lines = LineFeeds(basic.code) + 1
        /\ basic.code = BASIC_HELLO \o <<"\n">> =>
              basic_result.value.total_lines = 2 /\ basic_result.value.non_empty_lines = 1
        /\ basic_result.value.non_empty_lines <= basic_result.value.total_lines
        /\ \A i \in 1..Len(basic.lines) :
              HasInk(basic.lines[i]) => basic_result.value.min_line_length <= Len(basic.lines[i])
        /\ IF \E i \in 1..Len(basic.lines) : HasInk(basic.lines[i])
           THEN \E i \in 1..Len(basic.lines) :
                   HasInk(basic.lines[i]) /\ basic_result.value.min_line_length = Len(basic.lines[i])
           ELSE basic_result.value.min_line_length = 0

\* The statistics of a text with a blank line that is shorter than every
\* other line.
C14_Witness ==
    /\ BasicAsked("get_basic_stats")
    /\ basic_result.value.total_lines > basic_result.value.non_empty_lines
    /\ basic_result.value.non_empty_lines > 0
    /\ basic_result.value.min_line_length > 0
    /\ \E i \in 1..Len(basic.lines) : Len(basic.lines[i]) < basic_result.value.min_line_length

\* The lengths of the lines a bucket is for; 1000 stands for no upper end.
BucketRange(bucket) ==
    CASE bucket = "0-20" -> 0..20
      [] bucket = "21-40" -> 21..40
      [] bucket = "41-60" -> 41..60
      [] bucket = "61-80" -> 61..80
      [] bucket = "81-100" -> 81..100
      [] bucket = "100+" -> 101..1000

RECURSIVE SumOver(_, _)
SumOver(f, keys) ==
    IF keys = {} THEN 0
    ELSE LET k == CHOOSE k \in keys : TRUE IN f[k] + SumOver(f, keys \ {k})

\* C15: get_line_length_distribution counts every line, the empty ones too, in
\* exactly one of the buckets 0-20, 21-40, 41-60, 61-80, 81-100 and 100+ (100
\* characters: 81-100, 101: 100+), so the counts add up to the number of lines.
C15_Histogram ==
    BasicAsked("get_line_length_distribution") =>
        /\ DOMAIN basic_result.value = {"0-20", "21-40", "41-60", "61-80", "81-100", "100+"}
        /\ \A b \in DOMAIN basic_result.value :
              basic_result.value[b]
                 = Cardinality({i \in 1..Len(basic.lines) : Len(basic.lines[i]) \in BucketRange(b)})
        /\ SumOver(basic_result.value, DOMAIN basic_result.value) = Len(basic.lines)

\* The histogram of a line of 100 characters and one of 101.
C15_Witness ==
    /\ BasicAsked("get_line_length_distribution")
    /\ \E i, j \in 1..Len(basic.lines) : Len(basic.lines[i]) = 100 /\ Len(basic.lines[j]) = 101
    /\ basic_result.value["81-100"] = 1
    /\ basic_result.value["100+"] = 1

\* The maximal runs of blank lines: <<first line, last line>>.
MaximalBlankRuns(lines) ==
    {r \in (1..Len(lines)) \X (1..Len(lines)) :
        /\ r[1] <= r[2]
        /\ \A i \in r[1]..r[2] : ~HasInk(lines[i])
        /\ r[1] = 1 \/ HasInk(lines[r[1] - 1])
        /\ r[2] = Len(lines) \/ HasInk(lines[r[2] + 1])}

ReportedAsRuns(entries) == {entries[k] : k \in 1..Len(entries)}

\* C16: find_patterns reports exactly one consecutive_blank_lines entry for
\* each maximal run of more than 2 blank lines, wherever the run occurs, with
\* 1-based start_line and end_line and count = end_line - start_line + 1; runs
\* of 1 or 2 blank lines are not reported.
C16_BlankRuns ==
    BasicAsked("find_patterns") =>
        /\ ReportedAsRuns(basic_result.value.consecutive_blank_lines)
              = {BlankRun(r[1], r[2], r[2] - r[1] + 1) :
                    r \in {q \in MaximalBlankRuns(basic.lines) : q[2] - q[1] + 1 > 2}}
        /\ \A k, l \in 1..Len(basic_result.value.consecutive_blank_lines) :
              basic_result.value.consecutive_blank_lines[k]
                 = basic_result.value.consecutive_blank_lines[l] => k = l

\* The runs that a line with text follows are reported as the claim says.
BlankRunsBeforeText ==
    BasicAsked("find_patterns") =>
        /\ ReportedAsRuns(basic_result.value.consecutive_blank_lines)
              = {BlankRun(r[1], r[2], r[2] - r[1] + 1) :
                    r \in {q \in MaximalBlankRuns(basic.lines) :
                              q[2] - q[1] + 1 > 2 /\ q[2] < Len(basic.lines)}}
        /\ \A k, l \in 1..Len(basic_result.value.consecutive_blank_lines) :
              basic_result.value.consecutive_blank_lines[k]
                 = basic_result.value.consecutive_blank_lines[l] => k = l

\* The first lines of the stripped texts of at least min_length characters that
\* are on two lines or more.
RepeatedTexts(lines, min_length) ==
    {i \in 1..Len(lines) :
        /\ Len(Strip(lines[i])) >= min_length
        /\ \A j \in 1..(i - 1) : Strip(lines[j]) # Strip(lines[i])
        /\ \E j \in (i + 1)..Len(lines) : Strip(lines[j]) = Strip(lines[i])}

\* C17: find_duplicates returns one group for each distinct stripped text of
\* at least min_length characters that is on two lines or more, and no other
\* group; occurrences is the number of the lines listed, the lines are 1-based
\* and ascending, and the groups are ordered by occurrences, descending.
C17_DuplicateGroups ==
    BasicAsked("find_duplicates") =>
        /\ Len(basic_result.value) = Cardinality(RepeatedTexts(basic.lines, basic_result.min_length))
        /\ \A i \in RepeatedTexts(basic.lines, basic_result.min_length) :
              \E g \in 1..Len(basic_result.value) :
                 {basic_result.value[g].lines[k] : k \in 1..Len(basic_result.value[g].lines)}
                    = {j \in 1..Len(basic.lines) : Strip(basic.lines[j]) = Strip(basic.lines[i])}
        /\ \A g \in 1..Len(basic_result.value) :
              /\ basic_result.value[g].occurrences = Len(basic_result.value[g].lines)
              /\ \A k \in 1..Len(basic_result.value[g].lines) :
                    /\ basic_result.value[g].lines[k] \in 1..Len(basic.lines)
                    /\ k > 1 => basic_result.value[g].lines[k - 1] < basic_result.value[g].lines[k]
        /\ \A g, h \in 1..Len(basic_result.value) :
              g < h => basic_result.value[g].occurrences >= basic_result.value[h].occurrences

\* Two groups, the one of the text seen later first because it is on more lines.
C17_Witness ==
    /\ BasicAsked("find_duplicates")
    /\ Len(basic_result.value) = 2
    /\ basic_result.value[1].occurrences > basic_result.value[2].occurrences
    /\ basic_result.value[1].lines[1] > basic_result.value[2].lines[1]

(***************************************************************************)
(* The documents the analysis threads are run on.                          *)
(***************************************************************************)

\* The body lines of the long function: one more than the 50 a function may have.
LONG_BODY == 51

DOC_EMPTY == JoinLines(<<RUN_BLANK>>)

DOC_BAD == JoinLines(<<RUN_DEF_BAD, RUN_PASSWORD, RUN_BROKEN, RUN_FOR_RANGE, RUN_WHILE_INNER, RUN_DUP, RUN_DUP, RUN_DUP>>)

DOC_LOOPS == JoinLines(<<RUN_FOR_RANGE, RUN_FOR_INNER, RUN_WHILE_INNER, RUN_CONCAT>>)

DOC_LONG == JoinLines(<<RUN_LONG_DEF>> \o [i \in 1..LONG_BODY |-> RUN_PASS] \o <<RUN_NEXT_DEF>>)

DOC_JS == JoinLines(<<RUN_JS>>)

DOC_DUP == JoinLines(<<RUN_DUP, RUN_DUP, RUN_DUP, RUN_WIDE>>)

\* self.current_code and self.current_language when the analyses are started.
Source(code, language) == [current_code |-> code, current_language |-> language]

RunSources ==
    {Source(DOC_EMPTY, UNKNOWN_TAG),
     Source(DOC_BAD, PYTHON_TAG),
     Source(DOC_LOOPS, PYTHON_TAG),
     Source(DOC_LONG, UNKNOWN_TAG),
     Source(DOC_JS, JAVASCRIPT_TAG),
     Source(DOC_DUP, UNKNOWN_TAG)}

(***************************************************************************)
(* performance_analyzer.py: PerformanceAnalyzer.                           *)
(***************************************************************************)

\* A (pattern, message, severity) triple; None is the empty message.
PerfRule(pattern, message, severity) ==
    [pattern |-> pattern, message |-> message, severity |-> severity, recursive |-> FALSE]

\* The triple whose pattern refers back to its group, def\s+(\w+)...\1\s*\(:
\* the pattern is kept up to the group.
RecursionRule(head, message, severity) ==
    [pattern |-> head, message |-> message, severity |-> severity, recursive |-> TRUE]

PYTHON_PERFORMANCE_PATTERNS ==
    <<
      \* for\s+\w+\s+in\s+range\s*\(\s*len\s*\(
      PerfRule(Str(<<"f", "o", "r">>) \o Plus(In(WHITESPACE)) \o Plus(In(WORD)) \o Plus(In(WHITESPACE)) \o Str(<<"i", "n">>) \o Plus(In(WHITESPACE)) \o Str(<<"r", "a", "n", "g", "e">>) \o Star(In(WHITESPACE)) \o Str(<<"(">>) \o Star(In(WHITESPACE)) \o Str(<<"l", "e", "n">>) \o Star(In(WHITESPACE)) \o Str(<<"(">>),
               "Use enumerate() instead of range(len())", "medium"),
      \* for.*:\s*$, None, None: without a message the pattern is never searched
      PerfRule(<<>>, "", ""),
      \* \+\s*\[\s*\w+\s*\]
      PerfRule(Str(<<"+">>) \o Star(In(WHITESPACE)) \o Str(<<"[">>) \o Star(In(WHITESPACE)) \o Plus(In(WORD)) \o Star(In(WHITESPACE)) \o Str(<<"]">>),
               "List concatenation in loop may be inefficient, use .append()", "medium"),
      \* global\s+\w+
      PerfRule(Str(<<"g", "l", "o", "b", "a", "l">>) \o Plus(In(WHITESPACE)) \o Plus(In(WORD)),
               "Global variable access is slower than local", "low"),
      \* \[\s*\w+\s+for\s+\w+\s+in\s+.*\s+if\s+.*\s+if\s+
      PerfRule(Str(<<"[">>) \o Star(In(WHITESPACE)) \o Plus(In(WORD)) \o Plus(In(WHITESPACE)) \o Str(<<"f", "o", "r">>) \o Plus(In(WHITESPACE)) \o Plus(In(WORD)) \o Plus(In(WHITESPACE)) \o Str(<<"i", "n">>) \o Plus(In(WHITESPACE)) \o Star(ANY) \o Plus(In(WHITESPACE)) \o Str(<<"i", "f">>) \o Plus(In(WHITESPACE)) \o Star(ANY) \o Plus(In(WHITESPACE)) \o Str(<<"i", "f">>) \o Plus(In(WHITESPACE)),
               "Multiple if conditions in comprehension - consider generator", "low"),
      \* ["\'].*["\']\s*\+\s*["\']
      PerfRule(In({"\"", "'"}) \o Star(ANY) \o In({"\"", "'"}) \o Star(In(WHITESPACE)) \o Str(<<"+">>) \o Star(In(WHITESPACE)) \o In({"\"", "'"}),
               "String concatenation - consider f-strings or join()", "low"),
      \* return\s+\[.*for.*in.*\]
      PerfRule(Str(<<"r", "e", "t", "u", "r", "n">>) \o Plus(In(WHITESPACE)) \o Str(<<"[">>) \o Star(ANY) \o Str(<<"f", "o", "r">>) \o Star(ANY) \o Str(<<"i", "n">>) \o Star(ANY) \o Str(<<"]">>),
               "Consider using generator (yield) for large datasets", "low"),
      \* list\s*\(\s*\[
      PerfRule(Str(<<"l", "i", "s", "t">>) \o Star(In(WHITESPACE)) \o Str(<<"(">>) \o Star(In(WHITESPACE)) \o Str(<<"[">>),
               "Redundant list() call on list literal", "low"),
      \* dict\s*\(\s*\{
      PerfRule(Str(<<"d", "i", "c", "t">>) \o Star(In(WHITESPACE)) \o Str(<<"(">>) \o Star(In(WHITESPACE)) \o Str(<<"{">>),
               "Redundant dict() call on dict literal", "low"),
      \* ^import\s+numpy
      PerfRule(BOS \o Str(<<"i", "m", "p", "o", "r", "t">>) \o Plus(In(WHITESPACE)) \o Str(<<"n", "u", "m", "p", "y">>),
               "NumPy import at module level - may slow startup", "info"),
      \* ^import\s+pandas
      PerfRule(BOS \o Str(<<"i", "m", "p", "o", "r", "t">>) \o Plus(In(WHITESPACE)) \o Str(<<"p", "a", "n", "d", "a", "s">>),
               "Pandas import at module level - may slow startup", "info"),
      \* \.keys\s*\(\s*\)\s*\)
      PerfRule(Str(<<".", "k", "e", "y", "s">>) \o Star(In(WHITESPACE)) \o Str(<<"(">>) \o Star(In(WHITESPACE)) \o Str(<<")">>) \o Star(In(WHITESPACE)) \o Str(<<")">>),
               ".keys() often unnecessary - iterate dict directly", "low"),
      \* if\s+\w+\s+in\s+\w+\.keys\s*\(\s*\)
      PerfRule(Str(<<"i", "f">>) \o Plus(In(WHITESPACE)) \o Plus(In(WORD)) \o Plus(In(WHITESPACE)) \o Str(<<"i", "n">>) \o Plus(In(WHITESPACE)) \o Plus(In(WORD)) \o Str(<<".", "k", "e", "y", "s">>) \o Star(In(WHITESPACE)) \o Str(<<"(">>) \o Star(In(WHITESPACE)) \o Str(<<")">>),
               "Use \"in dict\" instead of \"in dict.keys()\"", "low"),
      \* type\s*\(\s*\w+\s*\)\s*==
      PerfRule(Str(<<"t", "y", "p", "e">>) \o Star(In(WHITESPACE)) \o Str(<<"(">>) \o Star(In(WHITESPACE)) \o Plus(In(WORD)) \o Star(In(WHITESPACE)) \o Str(<<")">>) \o Star(In(WHITESPACE)) \o Str(<<"=", "=">>),
               "Use isinstance() instead of type() for type checking", "medium"),
      \* except\s*:
      PerfRule(Str(<<"e", "x", "c", "e", "p", "t">>) \o Star(In(WHITESPACE)) \o Str(<<":">>),
               "Bare except catches all exceptions including KeyboardInterrupt", "medium"),
      \* \.read\s*\(\s*\)
      PerfRule(Str(<<".", "r", "e", "a", "d">>) \o Star(In(WHITESPACE)) \o Str(<<"(">>) \o Star(In(WHITESPACE)) \o Str(<<")">>),
               "Reading entire file into memory - consider iterating lines", "info"),
      \* def\s+(\w+)\s*\([^)]*\):[^}]*\1\s*\(
      RecursionRule(Str(<<"d", "e", "f">>) \o Plus(In(WHITESPACE)),
               "Recursive function - ensure base case and consider iteration", "info")
    >>

JS_PERFORMANCE_PATTERNS ==
    <<
      \* document\.getElementById\s*\([^)]+\)
      PerfRule(Str(<<"d", "o", "c", "u", "m", "e", "n", "t", ".", "g", "e", "t", "E", "l", "e", "m", "e", "n", "t", "B", "y", "I", "d">>) \o Star(In(WHITESPACE)) \o Str(<<"(">>) \o Plus(NotIn({")"})) \o Str(<<")">>),
               "Cache DOM elements instead of repeated lookups", "medium"),
      \* \.innerHTML\s*\+?=
      PerfRule(Str(<<".", "i", "n", "n", "e", "r", "H", "T", "M", "L">>) \o Star(In(WHITESPACE)) \o Opt(In({"+"})) \o Str(<<"=">>),
               "Multiple innerHTML changes - batch updates or use DocumentFragment", "medium"),
      \* for\s*\(\s*var\s+\w+\s*=\s*0.*\.length
      PerfRule(Str(<<"f", "o", "r">>) \o Star(In(WHITESPACE)) \o Str(<<"(">>) \o Star(In(WHITESPACE)) \o Str(<<"v", "a", "r">>) \o Plus(In(WHITESPACE)) \o Plus(In(WORD)) \o Star(In(WHITESPACE)) \o Str(<<"=">>) \o Star(In(WHITESPACE)) \o Str(<<"0">>) \o Star(ANY) \o Str(<<".", "l", "e", "n", "g", "t", "h">>),
               "Cache array length outside loop", "low"),
      \* \.forEach\s*\(\s*async
      PerfRule(Str(<<".", "f", "o", "r", "E", "a", "c", "h">>) \o Star(In(WHITESPACE)) \o Str(<<"(">>) \o Star(In(WHITESPACE)) \o Str(<<"a", "s", "y", "n", "c">>),
               "forEach with async - use Promise.all with map instead", "high"),
      \* addEventListener\s*\(
      PerfRule(Str(<<"a", "d", "d", "E", "v", "e", "n", "t", "L", "i", "s", "t", "e", "n", "e", "r">>) \o Star(In(WHITESPACE)) \o Str(<<"(">>),
               "Ensure event listeners are removed when not needed", "info"),
      \* setInterval\s*\(
      PerfRule(Str(<<"s", "e", "t", "I", "n", "t", "e", "r", "v", "a", "l">>) \o Star(In(WHITESPACE)) \o Str(<<"(">>),
               "Ensure intervals are cleared to prevent memory leaks", "info"),
      \* JSON\.parse\s*\(
      PerfRule(Str(<<"J", "S", "O", "N", ".", "p", "a", "r", "s", "e">>) \o Star(In(WHITESPACE)) \o Str(<<"(">>),
               "Large JSON parsing can block - consider streaming", "info"),
      \* new\s+Array\s*\(\s*\d+\s*\)
      PerfRule(Str(<<"n", "e", "w">>) \o Plus(In(WHITESPACE)) \o Str(<<"A", "r", "r", "a", "y">>) \o Star(In(WHITESPACE)) \o Str(<<"(">>) \o Star(In(WHITESPACE)) \o Plus(In(DIGITS)) \o Star(In(WHITESPACE)) \o Str(<<")">>),
               "Use array literal [] instead of new Array()", "low"),
      \* new\s+Object\s*\(\s*\)
      PerfRule(Str(<<"n", "e", "w">>) \o Plus(In(WHITESPACE)) \o Str(<<"O", "b", "j", "e", "c", "t">>) \o Star(In(WHITESPACE)) \o Str(<<"(">>) \o Star(In(WHITESPACE)) \o Str(<<")">>),
               "Use object literal {} instead of new Object()", "low")
    >>

\* _check_general_performance: ^(for|while)\s+
LOOP_RE ==
    BOS \o Alt(<<Str(<<"f", "o", "r">>), Str(<<"w", "h", "i", "l", "e">>)>>) \o Plus(In(WHITESPACE))

\* _check_general_performance: ^(def|function|async\s+function)\s+
FUNCTION_RE ==
    BOS \o Alt(<<Str(<<"d", "e", "f">>), Str(<<"f", "u", "n", "c", "t", "i", "o", "n">>), Str(<<"a", "s", "y", "n", "c">>) \o Plus(In(WHITESPACE)) \o Str(<<"f", "u", "n", "c", "t", "i", "o", "n">>)>>) \o Plus(In(WHITESPACE))

\* PerformanceAnalyzer.__init__
PerformanceAnalyzer(code, language) ==
    [code |-> code, language |-> Lower(language), lines |-> SplitLines(code)]

\* What follows the group (\w+) once it holds the name:
\* \s*\([^)]*\):[^}]*\1\s*\(
AfterName(name) ==
    Star(In(WHITESPACE)) \o Str(<<"(">>) \o Star(NotIn({")"})) \o Str(<<")", ":">>)
    \o Star(NotIn({"}"})) \o Str(name) \o Star(In(WHITESPACE)) \o Str(<<"(">>)

\* The pattern with the back reference matches from offset q, where the head
\* ends at offset a (-1: it does not match).
RecursionAt(head, line, a) ==
    /\ a # -1
    /\ RunAt(line, a, WORD) # <<>>
    /\ MatchEnd(AfterName(RunAt(line, a, WORD)), line, a + Len(RunAt(line, a, WORD)), FALSE) # -1

\* re.search(pattern, line)
PerfSearch(rule, line) ==
    IF rule.recursive
    THEN \E q \in 0..Len(line) : RecursionAt(rule.pattern, line, MatchEnd(rule.pattern, line, q, FALSE))
    ELSE ReSearch(rule.pattern, line, FALSE)

PerfIssue(i, message, severity, code) ==
    [line |-> i, message |-> message, severity |-> severity, code |-> code]

\* The inner loop over the patterns for line i, from pattern k on; with
\* guarded, a pattern without a message is passed over.
RECURSIVE PatternIssues(_, _, _, _, _)
PatternIssues(patterns, guarded, i, line, k) ==
    IF k > Len(patterns) THEN <<>>
    ELSE (IF (~guarded \/ patterns[k].message # "") /\ PerfSearch(patterns[k], line)
          THEN <<PerfIssue(i, <<patterns[k].message>>, patterns[k].severity, Prefix(Strip(line), 60))>>
          ELSE <<>>)
         \o PatternIssues(patterns, guarded, i, line, k + 1)

RECURSIVE LineIssues(_, _, _, _)
LineIssues(patterns, guarded, lines, i) ==
    IF i > Len(lines) THEN <<>>
    ELSE PatternIssues(patterns, guarded, i, lines[i], 1)
         \o LineIssues(patterns, guarded, lines, i + 1)

\* _check_python_performance
CheckPythonPerformance(self) == LineIssues(PYTHON_PERFORMANCE_PATTERNS, TRUE, self.lines, 1)

\* _check_js_performance
CheckJsPerformance(self) == LineIssues(JS_PERFORMANCE_PATTERNS, FALSE, self.lines, 1)

\* len(line) - len(line.lstrip())
LeadingWhitespace(line) == Len(line) - Len(LStrip(line))

\* A dedent check that counts down on every blank line that is indented less.
AfterDedentUnguarded(lines, i, nesting_level) ==
    IF Strip(lines[i]) = <<>> /\ i > 1
       /\ LeadingWhitespace(lines[i]) < LeadingWhitespace(lines[i - 1])
    THEN nesting_level - 1
    ELSE nesting_level

\* The nesting level after the dedent check that line i ends with.
AfterDedent(lines, i, nesting_level) ==
    IF nesting_level > 0 /\ Strip(lines[i]) = <<>> /\ i > 1
       /\ LeadingWhitespace(lines[i]) < LeadingWhitespace(lines[i - 1])
    THEN Max(0, nesting_level - 1)
    ELSE nesting_level

\* The first loop of _check_general_performance from line i on: <<max_nesting,
\* nested_line>> when the lines are through.
RECURSIVE NestedLoops(_, _, _, _, _)
NestedLoops(lines, i, nesting_level, max_nesting, nested_line) ==
    IF i > Len(lines) THEN <<max_nesting, nested_line>>
    ELSE IF ReMatch(LOOP_RE, Strip(lines[i]), FALSE)
    THEN NestedLoops(lines, i + 1, AfterDedent(lines, i, nesting_level + 1),
                     IF nesting_level + 1 > max_nesting THEN nesting_level + 1 ELSE max_nesting,
                     IF nesting_level + 1 > max_nesting THEN i ELSE nested_line)
    ELSE IF StartsWithAny(Strip(lines[i]), {<<"d", "e", "f", " ">>, <<"f", "u", "n", "c", "t", "i", "o", "n", " ">>, <<"c", "l", "a", "s", "s", " ">>})
    THEN NestedLoops(lines, i + 1, AfterDedent(lines, i, 0), max_nesting, nested_line)
    ELSE NestedLoops(lines, i + 1, AfterDedent(lines, i, nesting_level), max_nesting, nested_line)

\* An issue placed as many lines after the loop as the loops are deep.
NestedLoopIssueShifted(nested) ==
    IF nested[1] >= 3
    THEN <<PerfIssue(nested[2] + nested[1],
                     <<"Deeply nested loops (", nested[1], " levels) - O(n^", nested[1], ") complexity">>,
                     IF nested[1] >= 4 THEN "high" ELSE "medium",
                     <<"N", "e", "s", "t", "e", "d", " ", "l", "o", "o", "p", " ", "s", "t", "r", "u", "c", "t", "u", "r", "e">>)>>
    ELSE <<>>

NestedLoopIssue(nested) ==
    IF nested[1] >= 3
    THEN <<PerfIssue(nested[2],
                     <<"Deeply nested loops (", nested[1], " levels) - O(n^", nested[1], ") complexity">>,
                     IF nested[1] >= 4 THEN "high" ELSE "medium",
                     <<"N", "e", "s", "t", "e", "d", " ", "l", "o", "o", "p", " ", "s", "t", "r", "u", "c", "t", "u", "r", "e">>)>>
    ELSE <<>>

LongFunctionIssue(in_function, function_start, function_lines) ==
    IF in_function /\ function_lines > 50
    THEN <<PerfIssue(function_start,
                     <<"Long function (", function_lines, " lines) - consider breaking it up">>,
                     IF function_lines < 100 THEN "medium" ELSE "high",
                     <<"F", "u", "n", "c", "t", "i", "o", "n", " ", "d", "e", "f", "i", "n", "i", "t", "i", "o", "n">>)>>
    ELSE <<>>

\* The second loop of _check_general_performance, from line i on.
RECURSIVE LongFunctions(_, _, _, _, _)
LongFunctions(lines, i, in_function, function_start, function_lines) ==
    IF i > Len(lines) THEN <<>>
    ELSE IF ReMatch(FUNCTION_RE, Strip(lines[i]), FALSE)
    THEN LongFunctionIssue(in_function, function_start, function_lines)
         \o LongFunctions(lines, i + 1, TRUE, i, 0)
    ELSE IF in_function
    THEN LongFunctions(lines, i + 1, in_function, function_start, function_lines + 1)
    ELSE LongFunctions(lines, i + 1, in_function, function_start, function_lines)

\* _check_general_performance
CheckGeneralPerformance(self) ==
    NestedLoopIssue(NestedLoops(self.lines, 1, 0, 0, 0))
    \o LongFunctions(self.lines, 1, FALSE, 0, 0)

RECURSIVE VeryLongLines(_, _)
VeryLongLines(lines, i) ==
    IF i > Len(lines) THEN <<>>
    ELSE (IF Len(lines[i]) > 120
          THEN <<[line |-> i,
                  message |-> <<"Very long line (", Len(lines[i]), " chars) - hard to read">>,
                  type |-> "readability"]>>
          ELSE <<>>)
         \o VeryLongLines(lines, i + 1)

\* s.count(sub) from offset q on: the occurrences that do not overlap
RECURSIVE CountFrom(_, _, _)
CountFrom(s, sub, q) ==
    IF q + Len(sub) > Len(s) THEN 0
    ELSE IF SubSeq(s, q + 1, q + Len(sub)) = sub THEN 1 + CountFrom(s, sub, q + Len(sub))
    ELSE CountFrom(s, sub, q + 1)

\* and_count + or_count
Operators(line) ==
    CountFrom(Lower(line), <<" ", "a", "n", "d", " ">>, 0)
    + CountFrom(Lower(line), <<" ", "o", "r", " ">>, 0)

RECURSIVE ComplexConditions(_, _)
ComplexConditions(lines, i) ==
    IF i > Len(lines) THEN <<>>
    ELSE (IF Operators(lines[i]) >= 3
          THEN <<[line |-> i,
                  message |-> <<"Complex condition (", Operators(lines[i]), " operators) - consider simplifying">>,
                  type |-> "complexity"]>>
          ELSE <<>>)
         \o ComplexConditions(lines, i + 1)

\* _check_complexity
CheckComplexity(self) == VeryLongLines(self.lines, 1) \o ComplexConditions(self.lines, 1)

\* sub in s
Contains(s, sub) == \E q \in 0..(Len(s) - Len(sub)) : SubSeq(s, q + 1, q + Len(sub)) = sub

Suggest(condition, suggestion) == IF condition THEN <<suggestion>> ELSE <<>>

\* _get_python_suggestions
GetPythonSuggestions(self) ==
    Suggest(Contains(self.code, <<"f", "o", "r", " ">>) /\ Contains(self.code, <<"a", "p", "p", "e", "n", "d", "(">>),
            "Consider using list comprehensions instead of for-loop with append()")
    \o Suggest(Contains(self.code, <<"o", "p", "e", "n", "(">>) /\ ~Contains(self.code, <<"w", "i", "t", "h", " ">>),
               "Use 'with' statement for file operations to ensure proper cleanup")
    \o Suggest(Contains(self.code, <<"c", "l", "a", "s", "s", " ">>) /\ ~Contains(self.code, <<"_", "_", "s", "l", "o", "t", "s", "_", "_">>),
               "Consider using __slots__ in classes to reduce memory usage")
    \o Suggest(Contains(self.code, <<"d", "e", "f", " ">>) /\ ~Contains(self.code, <<"@", "l", "r", "u", "_", "c", "a", "c", "h", "e">>) /\ ~Contains(self.code, <<"@", "c", "a", "c", "h", "e">>),
               "Consider using @lru_cache for functions with repeated calls")
    \o Suggest(Contains(self.code, <<"d", "e", "f", " ">>) /\ Contains(self.code, <<":">>) /\ ~Contains(self.code, <<"-", ">">>),
               "Consider adding type hints for better code quality and IDE support")

\* The checks analyze() makes on an instance, one field per method; a method
\* it does not call for the language of the instance has no issues here.
PerformanceMethodsOf(self) ==
    [check_python_performance  |-> IF self.language = PYTHON THEN CheckPythonPerformance(self) ELSE <<>>,
     get_python_suggestions    |-> IF self.language = PYTHON THEN GetPythonSuggestions(self) ELSE <<>>,
     check_js_performance      |-> IF self.language \in {JAVASCRIPT, TYPESCRIPT} THEN CheckJsPerformance(self) ELSE <<>>,
     check_general_performance |-> CheckGeneralPerformance(self),
     check_complexity          |-> CheckComplexity(self)]

\* The analyzers built from the sources of the model; the three constructors
\* store the same three fields.
RunInstances == {PerformanceAnalyzer(s.current_code, s.current_language) : s \in RunSources}

\* The checks tabulated once for the instances of the model.
PerformanceMethods == [self \in RunInstances |-> PerformanceMethodsOf(self)]

\* self.<method>()
PerformanceCall(self, method) ==
    IF self \in RunInstances THEN PerformanceMethods[self][method]
    ELSE PerformanceMethodsOf(self)[method]

\* results = {"issues": [], "suggestions": [], "complexity_warnings": [], "memory_warnings": []}
EmptyPerformance ==
    [issues |-> <<>>, suggestions |-> <<>>, complexity_warnings |-> <<>>, memory_warnings |-> <<>>]

\* The if / elif of analyze(): the checks of the language.
WithLanguageChecks(self, results) ==
    IF self.language = PYTHON
    THEN [results EXCEPT !.issues = @ \o PerformanceCall(self, "check_python_performance"),
                         !.suggestions = @ \o PerformanceCall(self, "get_python_suggestions")]
    ELSE IF self.language \in {JAVASCRIPT, TYPESCRIPT}
    THEN [results EXCEPT !.issues = @ \o PerformanceCall(self, "check_js_performance")]
    ELSE results

\* results["issues"].extend(self._check_general_performance())
WithGeneralChecks(self, results) ==
    [results EXCEPT !.issues = @ \o PerformanceCall(self, "check_general_performance")]

\* results["complexity_warnings"] = self._check_complexity()
WithComplexity(self, results) ==
    [results EXCEPT !.complexity_warnings = PerformanceCall(self, "check_complexity")]

\* PerformanceAnalyzer.analyze
PerformanceAnalyze(self) ==
    WithComplexity(self, WithGeneralChecks(self, WithLanguageChecks(self, EmptyPerformance)))

(***************************************************************************)
(* The analyses on threads.                                                *)
(*                                                                         *)
(* main.py starts an analysis on a worker thread that builds an analyzer   *)
(* from self.current_code and self.current_language and calls analyze().   *)
(* Here the security, the performance and the quality analysis of one      *)
(* document each have a thread of their own, and the threads are           *)
(* interleaved between the statements of analyze().  jobs[a] holds the     *)
(* thread's analyzer, the locals of its analyze() call and what the call   *)
(* returned; shared holds what every thread can reach: the document of     *)
(* the window and the class attribute SECURITY_PATTERNS.                   *)
(***************************************************************************)

Analyzers == {"security", "performance", "quality"}

\* The analyze() calls the threads make on the document, all together.
MaxCalls == 4

\* The analyzers a thread builds.
MaxInstances == 2

\* A thread that has built nothing yet.
NewJob ==
    [pc |-> "idle", self |-> None, results |-> None, patterns_to_check |-> <<>>, c |-> 0,
     returned |-> None, previous |-> None, calls |-> 0, instances |-> 0]

\* The analyses of the document, each made alone by a whole analyze() call,
\* tabulated once for the sources of the model.
RunAlone ==
    [s \in RunSources |->
        [security    |-> SecurityAnalyze(SecurityAnalyzer(s.current_code, s.current_language)),
         performance |-> PerformanceAnalyze(PerformanceAnalyzer(s.current_code, s.current_language)),
         quality     |-> QualityAnalyze(QualityAnalyzer(s.current_code, s.current_language))]]

\* The dict literal of QualityAnalyzer.analyze tabulated once for the
\* instances of the model.
QualityCollected == [self \in RunInstances |-> QualityResults(self)]

\* SecurityAnalyzer(...), PerformanceAnalyzer(...) or QualityAnalyzer(...)
NewAnalyzer(a, code, language) ==
    IF a = "security" THEN SecurityAnalyzer(code, language)
    ELSE IF a = "performance" THEN PerformanceAnalyzer(code, language)
    ELSE QualityAnalyzer(code, language)

\* security = SecurityAnalyzer(self.current_code, self.current_language)
Constructed(job, analyzer) ==
    [job EXCEPT !.self = Some(analyzer), !.instances = @ + 1]

\* return results
Returned(job, results) ==
    [job EXCEPT !.pc = "idle", !.results = None, !.patterns_to_check = <<>>, !.c = 0,
                !.returned = Some(results), !.previous = job.returned, !.calls = @ + 1]

\* A call that goes on with the results record of the call before.
SecurityBeginStale(job) ==
    [job EXCEPT !.pc = "language",
                !.results = IF job.returned = None THEN Some(EmptyResults)
                            ELSE Some([issues          |-> job.returned[1].issues,
                                       severity_counts |-> job.returned[1].severity_counts,
                                       categories      |-> job.returned[1].categories]),
                !.patterns_to_check = <<>>]

\* results = {...}; patterns_to_check = {}
SecurityBegin(job) ==
    [job EXCEPT !.pc = "language", !.results = Some(EmptyResults), !.patterns_to_check = <<>>]

\* if self.language in self.SECURITY_PATTERNS:
\*     patterns_to_check.update(self.SECURITY_PATTERNS[self.language])
SecurityLoadLanguage(job, table) ==
    [job EXCEPT !.pc = "general",
                !.patterns_to_check = IF job.self[1].language \in DOMAIN table
                                      THEN DictUpdate(@, table[job.self[1].language])
                                      ELSE @]

\* An update made on the language's dict of the class attribute itself.
SecurityLoadGeneralShared(job, table) ==
    [job   |-> [job EXCEPT !.pc = "scan", !.c = 1,
                           !.patterns_to_check = DictUpdate(@, table[GENERAL])],
     table |-> IF job.self[1].language \in DOMAIN table
               THEN [table EXCEPT ![job.self[1].language] = DictUpdate(@, table[GENERAL])]
               ELSE table]

\* patterns_to_check.update(self.SECURITY_PATTERNS["general"]): the thread's
\* locals and the class attribute after the statement.
SecurityLoadGeneral(job, table) ==
    [job   |-> [job EXCEPT !.pc = "scan", !.c = 1,
                           !.patterns_to_check = DictUpdate(@, table[GENERAL])],
     table |-> table]

\* One pass of "for category, patterns in patterns_to_check.items()".
SecurityScan(job) ==
    [job EXCEPT !.c = @ + 1,
                !.results = Some(AddCategory(job.results[1], job.patterns_to_check[job.c].key,
                                     ScanRules(job.self[1].lines, job.patterns_to_check[job.c].key,
                                               job.patterns_to_check[job.c].value, 1)))]

\* results["total_issues"] = ...; results["risk_score"] = ...; return results
SecurityEnd(job) == Returned(job, WithRiskScore(WithTotalIssues(job.results[1])))

\* results = {"issues": [], ...}
PerformanceBegin(job) == [job EXCEPT !.pc = "language", !.results = Some(EmptyPerformance)]

\* if self.language == "python": ... elif self.language in ("javascript", "typescript"): ...
PerformanceLanguage(job) ==
    [job EXCEPT !.pc = "general", !.results = Some(WithLanguageChecks(job.self[1], job.results[1]))]

\* results["issues"].extend(self._check_general_performance())
PerformanceGeneral(job) ==
    [job EXCEPT !.pc = "complexity", !.results = Some(WithGeneralChecks(job.self[1], job.results[1]))]

\* results["complexity_warnings"] = self._check_complexity(); return results
PerformanceEnd(job) == Returned(job, WithComplexity(job.self[1], job.results[1]))

\* results = {"score": 0, "issues": [], "metrics": self._calculate_metrics(), ...}
QualityBegin(job) ==
    [job EXCEPT !.pc = "score",
                !.results = Some(IF job.self[1] \in RunInstances THEN QualityCollected[job.self[1]]
                                 ELSE QualityResults(job.self[1]))]

\* results["score"] = self._calculate_score(results)
QualityScore(job) == [job EXCEPT !.pc = "grade", !.results = Some(WithScore(job.results[1]))]

\* results["grade"] = self._get_grade(results["score"]); return results
QualityEnd(job) == Returned(job, WithGrade(job.results[1]))

\* The calls thread a has made or is making.
Started(a) == jobs[a].calls + (IF jobs[a].pc = "idle" THEN 0 ELSE 1)

\* A thread may start a call: it has an analyzer and there are calls left.
MayCall(a) ==
    /\ jobs[a].pc = "idle"
    /\ jobs[a].self # None
    /\ Started("security") + Started("performance") + Started("quality") < MaxCalls

otherVars == <<sec, sec_results, sec_previous, qual, qual_results, draft, py, py_result, basic, basic_result, scan, tally, app>>

RunInit ==
    /\ jobs = [a \in Analyzers |-> NewJob]
    /\ \E s \in RunSources :
          shared = [current_code      |-> s.current_code,
                    current_language  |-> s.current_language,
                    SECURITY_PATTERNS |-> SECURITY_PATTERNS]
    /\ SecIdle /\ QualIdle /\ DraftIdle /\ PyIdle /\ BasicIdle /\ ScanIdle /\ TallyIdle /\ AppIdle

\* A thread builds its analyzer: its first one, or another one after a call.
RunConstruct ==
    \E a \in Analyzers :
        /\ jobs[a].pc = "idle"
        /\ jobs[a].instances < MaxInstances
        /\ jobs[a].instances = jobs[a].calls
        /\ jobs' = [jobs EXCEPT ![a] = Constructed(@, NewAnalyzer(a, shared.current_code, shared.current_language))]
        /\ UNCHANGED <<shared, otherVars>>

RunSecurityBegin ==
    /\ MayCall("security")
    /\ jobs' = [jobs EXCEPT !["security"] = SecurityBegin(@)]
    /\ UNCHANGED <<shared, otherVars>>

RunSecurityLoadLanguage ==
    /\ jobs["security"].pc = "language"
    /\ jobs' = [jobs EXCEPT !["security"] = SecurityLoadLanguage(@, shared.SECURITY_PATTERNS)]
    /\ UNCHANGED <<shared, otherVars>>

RunSecurityLoadGeneral ==
    /\ jobs["security"].pc = "general"
    /\ jobs' = [jobs EXCEPT !["security"] = SecurityLoadGeneral(jobs["security"], shared.SECURITY_PATTERNS).job]
    /\ shared' = [shared EXCEPT !.SECURITY_PATTERNS = SecurityLoadGeneral(jobs["security"], shared.SECURITY_PATTERNS).table]
    /\ UNCHANGED otherVars

RunSecurityScan ==
    /\ jobs["security"].pc = "scan"
    /\ jobs["security"].c <= Len(jobs["security"].patterns_to_check)
    /\ jobs' = [jobs EXCEPT !["security"] = SecurityScan(@)]
    /\ UNCHANGED <<shared, otherVars>>

RunSecurityEnd ==
    /\ jobs["security"].pc = "scan"
    /\ jobs["security"].c > Len(jobs["security"].patterns_to_check)
    /\ jobs' = [jobs EXCEPT !["security"] = SecurityEnd(@)]
    /\ UNCHANGED <<shared, otherVars>>

RunPerformanceBegin ==
    /\ MayCall("performance")
    /\ jobs' = [jobs EXCEPT !["performance"] = PerformanceBegin(@)]
    /\ UNCHANGED <<shared, otherVars>>

RunPerformanceLanguage ==
    /\ jobs["performance"].pc = "language"
    /\ jobs' = [jobs EXCEPT !["performance"] = PerformanceLanguage(@)]
    /\ UNCHANGED <<shared, otherVars>>

RunPerformanceGeneral ==
    /\ jobs["performance"].pc = "general"
    /\ jobs' = [jobs EXCEPT !["performance"] = PerformanceGeneral(@)]
    /\ UNCHANGED <<shared, otherVars>>

RunPerformanceEnd ==
    /\ jobs["performance"].pc = "complexity"
    /\ jobs' = [jobs EXCEPT !["performance"] = PerformanceEnd(@)]
    /\ UNCHANGED <<shared, otherVars>>

RunQualityBegin ==
    /\ MayCall("quality")
    /\ jobs' = [jobs EXCEPT !["quality"] = QualityBegin(@)]
    /\ UNCHANGED <<shared, otherVars>>

RunQualityScore ==
    /\ jobs["quality"].pc = "score"
    /\ jobs' = [jobs EXCEPT !["quality"] = QualityScore(@)]
    /\ UNCHANGED <<shared, otherVars>>

RunQualityEnd ==
    /\ jobs["quality"].pc = "grade"
    /\ jobs' = [jobs EXCEPT !["quality"] = QualityEnd(@)]
    /\ UNCHANGED <<shared, otherVars>>

RunNext ==
    \/ RunConstruct
    \/ RunSecurityBegin \/ RunSecurityLoadLanguage \/ RunSecurityLoadGeneral
    \/ RunSecurityScan \/ RunSecurityEnd
    \/ RunPerformanceBegin \/ RunPerformanceLanguage \/ RunPerformanceGeneral \/ RunPerformanceEnd
    \/ RunQualityBegin \/ RunQualityScore \/ RunQualityEnd

SpecRun == RunInit /\ [][RunNext]_vars

(***************************************************************************)
(* Properties of the analyses on threads.                                  *)
(***************************************************************************)

\* The document the threads were started on.
RunSource == Source(shared.current_code, shared.current_language)

\* The number of lines of the document.
RunLineCount == Len(SplitLines(shared.current_code))

\* A finding that belongs to the file and to no line of it: the smell
\* _detect_code_smells reports with "line": 0.
FileLevel(finding) == "type" \in DOMAIN finding /\ finding.type = "duplicate_code"

\* The line of a finding is a line of the document, or 0 on a file-level
\* finding.
LineValid(finding) ==
    \/ finding.line \in 1..RunLineCount
    \/ finding.line = 0 /\ FileLevel(finding)

AllLinesValid(findings) == \A i \in 1..Len(findings) : LineValid(findings[i])

HasReturned(a) == jobs[a].returned # None

\* C18: every line number carried by a finding of SecurityAnalyzer.analyze, by
\* an issue or complexity warning of PerformanceAnalyzer.analyze, and by a
\* code smell or naming issue of QualityAnalyzer.analyze is a 1-based position
\* in the document (1 <= line <= number of lines), or 0 on a file-level
\* finding, whether or not the text parses.
C18_LineNumbersValid ==
    /\ HasReturned("security") => AllLinesValid(jobs["security"].returned[1].issues)
    /\ HasReturned("performance") =>
          /\ AllLinesValid(jobs["performance"].returned[1].issues)
          /\ AllLinesValid(jobs["performance"].returned[1].complexity_warnings)
    /\ HasReturned("quality") =>
          /\ AllLinesValid(jobs["quality"].returned[1].code_smells)
          /\ AllLinesValid(jobs["quality"].returned[1].naming_issues)

\* The three analyses have returned on the document with the header that
\* does not parse, each with findings: on lines after the first, and one on
\* the file.
C18_Witness ==
    /\ jobs # Idle
    /\ shared.current_code = DOC_BAD
    /\ \A a \in Analyzers : HasReturned(a)
    /\ \E i \in 1..Len(jobs["security"].returned[1].issues) :
          jobs["security"].returned[1].issues[i].line > 1
    /\ \E i \in 1..Len(jobs["performance"].returned[1].issues) :
          jobs["performance"].returned[1].issues[i].line > 1
    /\ \E i \in 1..Len(jobs["performance"].returned[1].complexity_warnings) :
          jobs["performance"].returned[1].complexity_warnings[i].line > 1
    /\ \E i \in 1..Len(jobs["quality"].returned[1].code_smells) :
          jobs["quality"].returned[1].code_smells[i].line = 0
    /\ \E i \in 1..Len(jobs["quality"].returned[1].code_smells) :
          jobs["quality"].returned[1].code_smells[i].line > 1
    /\ Len(jobs["quality"].returned[1].naming_issues) > 0

\* C19: analysis is deterministic and idempotent: a second analyze() call, on
\* the same analyzer or on another one built from the same text and language,
\* returns what the call before returned, and no call changes the text, the
\* language or the lines the analyzer stores.
C19_Idempotent ==
    \A a \in Analyzers :
        /\ jobs[a].self # None =>
              jobs[a].self[1] = NewAnalyzer(a, shared.current_code, shared.current_language)
        /\ jobs[a].previous # None => jobs[a].returned = jobs[a].previous

\* The security thread has called analyze() on a second analyzer and the
\* quality thread twice on the same one, both on a document with findings.
C19_Witness ==
    /\ jobs # Idle
    /\ jobs["security"].previous # None
    /\ jobs["security"].instances = 2
    /\ Len(jobs["security"].returned[1].issues) > 0
    /\ jobs["quality"].previous # None
    /\ jobs["quality"].instances = 1
    /\ Len(jobs["quality"].returned[1].code_smells) > 0

\* What a call returned is what the call returns when no other thread runs.
ResultsAsAlone ==
    \A a \in Analyzers : HasReturned(a) => jobs[a].returned[1] = RunAlone[RunSource][a]

\* The rule table is as the class defines it.
TablesOnlyRead == shared.SECURITY_PATTERNS = SECURITY_PATTERNS

\* A step writes the record of one thread and nothing else.
OwnRecordOnly ==
    /\ shared' = shared
    /\ \A a, b \in Analyzers : jobs'[a] # jobs[a] /\ jobs'[b] # jobs[b] => a = b

\* C20: security, performance and quality invocations on the same document
\* that run on separate threads share no mutable state: under every
\* interleaving each invocation returns what it returns when run alone, and
\* none writes anything but its own result record; the shared rule tables are
\* only read.
C20_Independent == [](ResultsAsAlone /\ TablesOnlyRead) /\ [][OwnRecordOnly]_vars

\* The security call has returned findings while the performance call and
\* the quality call were under way.
C20_Witness ==
    /\ jobs # Idle
    /\ HasReturned("security")
    /\ Len(jobs["security"].returned[1].issues) > 0
    /\ jobs["performance"].pc = "general"
    /\ jobs["quality"].pc = "grade"

(***************************************************************************)
(* The line metrics of QualityAnalyzer on documents built line by line.    *)
(***************************************************************************)

\* '"""'
METRIC_TRIPLE == <<"\"", "\"", "\"">>

\* 'x = 1'
METRIC_CODE == <<"x", " ", "=", " ", "1">>

\* ''
METRIC_BLANK == <<>>

\* '  '
METRIC_SPACES == <<" ", " ">>

\* '# c'
METRIC_HASH == <<"#", " ", "c">>

\* ' */'
METRIC_CLOSE == <<" ", "*", "/">>

MetricCorpus == {METRIC_TRIPLE, METRIC_CODE, METRIC_BLANK, METRIC_SPACES, METRIC_HASH, METRIC_CLOSE}

\* The number of lines of the largest document the metrics are taken of.
MaxMetricLines == 3

MetricsInit ==
    /\ \E line \in MetricCorpus : qual = QualityAnalyzer(line, PYTHON_TAG)
    /\ qual_results = NoResult
    /\ SecIdle /\ DraftIdle /\ PyIdle /\ BasicIdle /\ RunIdle /\ ScanIdle /\ TallyIdle /\ AppIdle

\* metrics = analyzer._calculate_metrics()
MetricsCalculate ==
    /\ qual_results = NoResult
    /\ qual_results' = Answer("_calculate_metrics", CalculateMetrics(qual))
    /\ UNCHANGED <<qual, sec, sec_results, sec_previous, draft, py, py_result, basic, basic_result, jobs, shared, scan, tally, app>>

\* QualityAnalyzer(code with one more line, language)
MetricsAddLine ==
    /\ qual_results # NoResult
    /\ Len(qual.lines) < MaxMetricLines
    /\ \E line \in MetricCorpus :
          qual' = QualityAnalyzer(JoinLines(Append(qual.lines, line)), qual.language)
    /\ qual_results' = NoResult
    /\ UNCHANGED <<sec, sec_results, sec_previous, draft, py, py_result, basic, basic_result, jobs, shared, scan, tally, app>>

MetricsNext == MetricsCalculate \/ MetricsAddLine

SpecMetrics == MetricsInit /\ [][MetricsNext]_vars

MetricsTaken == qual # Idle /\ qual_results # NoResult /\ qual_results.query = "_calculate_metrics"

\* A line that carries a triple-quote marker.
Marked(line) == Contains(line, TRIPLE_DOUBLE) \/ Contains(line, TRIPLE_SINGLE)

MarkedBefore(lines, i) == Cardinality({j \in 1..(i - 1) : Marked(lines[j])})

\* Line i lies between an opening triple-quote line and the next
\* triple-quote line.
BetweenTripleQuotes(lines, i) ==
    /\ ~Marked(lines[i])
    /\ MarkedBefore(lines, i) % 2 = 1
    /\ \E j \in (i + 1)..Len(lines) : Marked(lines[j])

\* The non-blank lines an in-comment mode toggled by the markers makes comments.
ToggledComments(lines) ==
    {i \in 1..Len(lines) : Strip(lines[i]) # <<>> /\ (Marked(lines[i]) \/ BetweenTripleQuotes(lines, i))}

\* C22: in the line-type metrics of QualityAnalyzer every line carrying a
\* triple-quote marker toggles an in-comment mode: each non-blank line between
\* an opening triple-quote line and the next triple-quote line is counted as a
\* comment line and not as a code line.
C22_TripleQuoteToggles ==
    MetricsTaken =>
        /\ qual_results.value.comment_lines >= Cardinality(ToggledComments(qual.lines))
        /\ qual_results.value.code_lines
              <= NonEmptyLines(qual.lines) - Cardinality(ToggledComments(qual.lines))

\* The metrics of a document with a line of code between two triple-quote lines.
CodeBetweenTripleQuotes ==
    /\ MetricsTaken
    /\ \E i \in 1..Len(qual.lines) :
          BetweenTripleQuotes(qual.lines, i) /\ qual.lines[i] = METRIC_CODE

\* C28: the line metrics partition the document: every line is counted in
\* exactly one of code_lines, blank_lines, comment_lines, so that
\* code_lines + blank_lines + comment_lines = total_lines.
C28_LinesPartitioned ==
    MetricsTaken =>
        /\ qual_results.value.total_lines = Len(qual.lines)
        /\ qual_results.value.code_lines + qual_results.value.blank_lines
              + qual_results.value.comment_lines = qual_results.value.total_lines

\* The metrics of a document with a line of each kind.
C28_Witness ==
    /\ MetricsTaken
    /\ qual_results.value.code_lines > 0
    /\ qual_results.value.blank_lines > 0
    /\ qual_results.value.comment_lines > 0

(***************************************************************************)
(* _check_general_performance line by line: scan holds the locals of the   *)
(* call, and a step is one pass of one of its two loops.                   *)
(***************************************************************************)

\* 'for a in x:'
SCAN_FOR == <<"f", "o", "r", " ", "a", " ", "i", "n", " ", "x", ":">>

\* '    while y:'
SCAN_WHILE == <<" ", " ", " ", " ", "w", "h", "i", "l", "e", " ", "y", ":">>

\* '    pass'
SCAN_PASS == <<" ", " ", " ", " ", "p", "a", "s", "s">>

\* ''
SCAN_BLANK == <<>>

\* '        '
SCAN_SPACES == <<" ", " ", " ", " ", " ", " ", " ", " ">>

\* 'def f():'
SCAN_DEF == <<"d", "e", "f", " ", "f", "(", ")", ":">>

\* 'x'
SCAN_BODY == <<"x">>

ScanCorpus == {SCAN_FOR, SCAN_WHILE, SCAN_PASS, SCAN_BLANK, SCAN_SPACES, SCAN_DEF}

\* The number of lines of the largest document built from the corpus.
MaxScanLines == 4

\* def f(): followed by n lines, and by another def when followed.
LongDocument(n, followed) ==
    <<SCAN_DEF>> \o [k \in 1..n |-> SCAN_BODY] \o (IF followed THEN <<SCAN_DEF>> ELSE <<>>)

\* The spans of the long documents: at the threshold and past it.
LongSpans == {LONG_BODY - 1, LONG_BODY}

\* nesting_level = 0; max_nesting = 0; nested_line = 0, and the locals of the
\* second loop before it; trace is the nesting level after each line so far.
NewScan(self) ==
    [self |-> self, pc |-> "nesting", i |-> 1, issues |-> <<>>,
     nesting_level |-> 0, max_nesting |-> 0, nested_line |-> 0, trace |-> <<>>,
     function_lines |-> 0, function_start |-> 0, in_function |-> FALSE]

\* A maximum that stays at the line of the first loop.
LoopOpenedFirst(frame) ==
    [frame EXCEPT !.nesting_level = @ + 1,
                  !.max_nesting = IF frame.nesting_level + 1 > @ THEN frame.nesting_level + 1 ELSE @,
                  !.nested_line = IF frame.max_nesting = 0 THEN frame.i ELSE @]

\* nesting_level += 1; if nesting_level > max_nesting: ...
LoopOpened(frame) ==
    [frame EXCEPT !.nesting_level = @ + 1,
                  !.max_nesting = IF frame.nesting_level + 1 > @ THEN frame.nesting_level + 1 ELSE @,
                  !.nested_line = IF frame.nesting_level + 1 > frame.max_nesting THEN frame.i ELSE @]

\* if re.match(r"^(for|while)\s+", stripped): ... elif stripped.startswith(...): ...
Opened(frame) ==
    IF ReMatch(LOOP_RE, Strip(frame.self.lines[frame.i]), FALSE) THEN LoopOpened(frame)
    ELSE IF StartsWithAny(Strip(frame.self.lines[frame.i]), {"def ", "function ", "class "})
    THEN [frame EXCEPT !.nesting_level = 0]
    ELSE frame

\* if nesting_level > 0 and not stripped and i > 1: ...
Dedented(frame) ==
    [frame EXCEPT !.nesting_level = AfterDedent(frame.self.lines, frame.i, @)]

\* The next pass of the loop.
NextLine(frame) == [frame EXCEPT !.i = @ + 1]

\* One pass of the first loop.
NestingLine(frame) ==
    [NextLine(Dedented(Opened(frame))) EXCEPT !.trace = Append(@, Dedented(Opened(frame)).nesting_level)]

\* if max_nesting >= 3: issues.append(...), and the locals of the second loop.
NestingEnd(frame) ==
    [frame EXCEPT !.pc = "functions", !.i = 1,
                  !.issues = @ \o NestedLoopIssue(<<frame.max_nesting, frame.nested_line>>)]

\* One pass of the second loop.
FunctionLine(frame) ==
    IF ReMatch(FUNCTION_RE, Strip(frame.self.lines[frame.i]), FALSE)
    THEN [NextLine(frame) EXCEPT
              !.issues = @ \o LongFunctionIssue(frame.in_function, frame.function_start, frame.function_lines),
              !.in_function = TRUE, !.function_start = frame.i, !.function_lines = 0]
    ELSE IF frame.in_function THEN [NextLine(frame) EXCEPT !.function_lines = @ + 1]
    ELSE NextLine(frame)

\* No call of _check_general_performance has been made.
NoScan == [pc |-> "new"]

GeneralInit ==
    /\ scan = NoScan
    /\ tally = Idle /\ app = Idle
    /\ SecIdle /\ QualIdle /\ DraftIdle /\ PyIdle /\ BasicIdle /\ RunIdle

scanOthers == <<sec, sec_results, sec_previous, qual, qual_results, draft, py, py_result, basic, basic_result, jobs, shared, tally, app>>

\* PerformanceAnalyzer(code, language)._check_general_performance() on a
\* document of the corpus: the call enters the method.
GeneralCall ==
    /\ scan = NoScan
    /\ \E n \in 1..MaxScanLines : \E lines \in [1..n -> ScanCorpus] :
          scan' = NewScan(PerformanceAnalyzer(JoinLines(lines), UNKNOWN_TAG))
    /\ UNCHANGED scanOthers

\* The call on a long document.
GeneralCallLong ==
    /\ scan = NoScan
    /\ \E n \in LongSpans, followed \in BOOLEAN :
          scan' = NewScan(PerformanceAnalyzer(JoinLines(LongDocument(n, followed)), UNKNOWN_TAG))
    /\ UNCHANGED scanOthers

GeneralNestingLine ==
    /\ scan.pc = "nesting" /\ scan.i <= Len(scan.self.lines)
    /\ scan' = NestingLine(scan)
    /\ UNCHANGED scanOthers

GeneralNestingEnd ==
    /\ scan.pc = "nesting" /\ scan.i > Len(scan.self.lines)
    /\ scan' = NestingEnd(scan)
    /\ UNCHANGED scanOthers

GeneralFunctionLine ==
    /\ scan.pc = "functions" /\ scan.i <= Len(scan.self.lines)
    /\ scan' = FunctionLine(scan)
    /\ UNCHANGED scanOthers

\* return issues
GeneralReturn ==
    /\ scan.pc = "functions" /\ scan.i > Len(scan.self.lines)
    /\ scan' = [scan EXCEPT !.pc = "done"]
    /\ UNCHANGED scanOthers

\* A pass of a loop, or the statement after it.
GeneralStep == GeneralNestingLine \/ GeneralNestingEnd \/ GeneralFunctionLine \/ GeneralReturn

GeneralNext == GeneralCall \/ GeneralCallLong \/ GeneralStep

SpecGeneral == GeneralInit /\ [][GeneralNext]_vars

\* A call that has been made goes on while it has a statement to execute.
\* A call has been made.
Scanning == scan # Idle /\ scan # NoScan

GeneralReturned == Scanning /\ scan.pc = "done"

\* The call returns what _check_general_performance returns as a whole.
GeneralAsWhole == GeneralReturned => scan.issues = CheckGeneralPerformance(scan.self)

\* The last line before line i that is not blank, 0 when there is none.
PreviousInk(lines, i) ==
    IF \E j \in 1..(i - 1) : Strip(lines[j]) # <<>>
    THEN CHOOSE j \in 1..(i - 1) : Strip(lines[j]) # <<>> /\ \A k \in (j + 1)..(i - 1) : Strip(lines[k]) = <<>>
    ELSE 0

\* Line i is indented less than the last line before it that is not blank.
DedentAt(lines, i) ==
    /\ PreviousInk(lines, i) > 0
    /\ LeadingWhitespace(lines[i]) < LeadingWhitespace(lines[PreviousInk(lines, i)])

\* The counter after the if / elif of line i.
OpenedLevel(lines, i, nesting_level) ==
    IF ReMatch(LOOP_RE, Strip(lines[i]), FALSE) THEN nesting_level + 1
    ELSE IF StartsWithAny(Strip(lines[i]), {"def ", "function ", "class "}) THEN 0
    ELSE nesting_level

\* The counter after line i by the rule: one more on a loop, 0 on a def,
\* function or class line, one less on a dedent.
LevelByRule(lines, i, nesting_level) ==
    IF DedentAt(lines, i) THEN Max(0, OpenedLevel(lines, i, nesting_level) - 1)
    ELSE OpenedLevel(lines, i, nesting_level)

SequentialLoopsAccumulate ==
    /\ Scanning /\ scan.pc # "nesting"
    /\ scan.self.lines = <<SCAN_FOR, SCAN_PASS, SCAN_FOR, SCAN_PASS>>
    /\ scan.max_nesting = 2

\* The highest of the nesting levels the scan has passed through.
MaxOfTrace(trace) ==
    CHOOSE m \in 0..Len(trace) :
        /\ \A k \in 1..Len(trace) : trace[k] <= m
        /\ m = 0 \/ \E k \in 1..Len(trace) : trace[k] = m

\* The first line after which the counter stood at m.
FirstAt(trace, m) == CHOOSE k \in 1..Len(trace) : trace[k] = m /\ \A j \in 1..(k - 1) : trace[j] # m

NESTED_CODE == <<"N", "e", "s", "t", "e", "d", " ", "l", "o", "o", "p", " ", "s", "t", "r", "u", "c", "t", "u", "r", "e">>

\* The deep-nesting issues among the issues.
NestingIssues(issues) ==
    LET IsNesting(issue) == issue.code = NESTED_CODE
    IN  SelectSeq(issues, IsNesting)

LinesRead(frame) ==
    {frame.i} \cup (IF Opened(frame).nesting_level > 0 /\ Strip(frame.self.lines[frame.i]) = <<>> /\ frame.i > 1
                    THEN {frame.i - 1} ELSE {})

\* The counter is not negative and the next pass reads lines of the document.
NestingSound ==
    Scanning =>
        /\ scan.nesting_level >= 0
        /\ \A k \in 1..Len(scan.trace) : scan.trace[k] >= 0
        /\ (scan.pc = "nesting" /\ scan.i <= Len(scan.self.lines))
              => LinesRead(scan) \subseteq 1..Len(scan.self.lines)

\* A pass of the first loop goes on to the next line, and the pass after the
\* last line leaves the loop.
NestingAdvances ==
    (Scanning /\ scan.pc = "nesting") =>
        \/ scan'.pc = "nesting" /\ scan'.i = scan.i + 1 /\ scan'.i <= Len(scan.self.lines) + 1
        \/ scan'.pc = "functions" /\ scan.i = Len(scan.self.lines) + 1

Openers(lines) == {k \in 1..Len(lines) : ReMatch(FUNCTION_RE, Strip(lines[k]), FALSE)}

\* The lines counted after the opener at line k: up to the next opener or
\* the end of the document.
SpanOf(lines, k) ==
    Cardinality({j \in (k + 1)..Len(lines) : \A o \in Openers(lines) : o <= k \/ o > j})

FUNCTION_CODE == <<"F", "u", "n", "c", "t", "i", "o", "n", " ", "d", "e", "f", "i", "n", "i", "t", "i", "o", "n">>

\* The long-function issues located at line k.
LongIssuesAt(issues, k) ==
    LET IsAt(issue) == issue.code = FUNCTION_CODE /\ issue.line = k
    IN  SelectSeq(issues, IsAt)

\* The function opened at line k is reported as the rule says.
ReportedByRule(issues, lines, k) ==
    IF SpanOf(lines, k) > 50
    THEN /\ Len(LongIssuesAt(issues, k)) = 1
         /\ LongIssuesAt(issues, k)[1].severity = (IF SpanOf(lines, k) < 100 THEN "medium" ELSE "high")
    ELSE Len(LongIssuesAt(issues, k)) = 0

\* C26: the long-function detector reports every function whose span of
\* lines counted after its def/function opener exceeds 50: exactly one issue
\* per such function, at the opener's line, with severity medium when the span
\* is below 100 lines and high when it is 100 or more; functions with a span
\* of 50 or fewer lines are never reported.
C26_LongFunctionsReported ==
    GeneralReturned => \A k \in Openers(scan.self.lines) : ReportedByRule(scan.issues, scan.self.lines, k)

\* The functions that another opener follows are reported as the rule says,
\* and no long-function issue is located anywhere else.
FollowedFunctionsReported ==
    GeneralReturned =>
        /\ \A k \in Openers(scan.self.lines) :
              (\E o \in Openers(scan.self.lines) : o > k) => ReportedByRule(scan.issues, scan.self.lines, k)
        /\ \A k \in 1..Len(scan.self.lines) :
              k \notin Openers(scan.self.lines) => Len(LongIssuesAt(scan.issues, k)) = 0

\* A function of more than 50 lines that another function follows has been
\* reported.
LongFunctionReported ==
    /\ GeneralReturned
    /\ Len(LongIssuesAt(scan.issues, 1)) = 1
    /\ SpanOf(scan.self.lines, 1) = LONG_BODY

\* The last function of the document has more than 50 lines and the call has
\* returned without an issue.
LastFunctionUnreported ==
    /\ GeneralReturned
    /\ scan.self.lines = LongDocument(LONG_BODY, FALSE)
    /\ scan.issues = <<>>

\* The findings of a category among the issues.
FindingsOf(issues, category) == {i \in 1..Len(issues) : issues[i].category = category}

\* sum(d.values()) from entry i on.
RECURSIVE ValuesFrom(_, _)
ValuesFrom(d, i) == IF i > Len(d) THEN 0 ELSE d[i].value + ValuesFrom(d, i + 1)

\* C27: in every result of SecurityAnalyzer.analyze the categories map has a
\* key for a category exactly when at least one finding has that category,
\* its value is the number of findings with that category, and the values sum
\* to total_issues.
C27_CategoriesCountFindings ==
    SecAnalysed =>
        /\ Len(sec_results.categories) = Cardinality(DictKeys(sec_results.categories))
        /\ DictKeys(sec_results.categories)
              = {sec_results.issues[i].category : i \in 1..Len(sec_results.issues)}
        /\ \A category \in DictKeys(sec_results.categories) :
              DictGet(sec_results.categories, category)
                  = Cardinality(FindingsOf(sec_results.issues, category))
        /\ ValuesFrom(sec_results.categories, 1) = sec_results.total_issues

\* A result with findings in two categories, two of them in one category.
C27_Witness ==
    /\ SecAnalysed
    /\ Len(sec_results.categories) >= 2
    /\ \E category \in DictKeys(sec_results.categories) : DictGet(sec_results.categories, category) >= 2

(***************************************************************************)
(* utils/helpers.py: count_lines_by_type line by line.  tally holds the    *)
(* locals of the call, and a step is one pass of its loop.                 *)
(***************************************************************************)

\* '/* a'
TALLY_OPEN == <<"/", "*", " ", "a">>

\* 'b */'
TALLY_CLOSE == <<"b", " ", "*", "/">>

\* 'x = 1'
TALLY_CODE == <<"x", " ", "=", " ", "1">>

\* ''
TALLY_BLANK == <<>>

\* '# c'
TALLY_HASH == <<"#", " ", "c">>

\* '"""'
TALLY_TRIPLE == <<"\"", "\"", "\"">>

\* '/* d */'
TALLY_BLOCK == <<"/", "*", " ", "d", " ", "*", "/">>

TallyCorpus == {TALLY_OPEN, TALLY_CLOSE, TALLY_CODE, TALLY_BLANK, TALLY_HASH, TALLY_TRIPLE, TALLY_BLOCK}

BLOCK_OPEN == <<"/", "*">>

BLOCK_CLOSE == <<"*", "/">>

HASH == <<"#">>

SLASHES == <<"/", "/">>

DASHES == <<"-", "-">>

\* The number of lines of the largest document counted.
MaxTallyLines == 4

\* No call of count_lines_by_type has been made.
NoTally == [pc |-> "new"]

\* lines = code.split("\n"); result = {...}; in_multiline_comment = False;
\* kinds is the kind each line so far was counted as.
NewTally(code) ==
    [pc |-> "loop", lines |-> SplitLines(code), i |-> 1,
     result |-> [total |-> Len(SplitLines(code)), code |-> 0, blank |-> 0, comment |-> 0],
     in_multiline_comment |-> FALSE, kinds |-> <<>>]

\* result[kind] += 1; continue
Counted(frame, kind, in_multiline_comment) ==
    [frame EXCEPT !.i = @ + 1, !.result[kind] = @ + 1, !.kinds = Append(@, kind),
                  !.in_multiline_comment = in_multiline_comment]

\* One pass of "for line in lines".  The second "if in_multiline_comment",
\* the one that looks for the end of a block comment, comes after the first
\* and is never reached with the flag set.
TallyLine(frame) ==
    IF Strip(frame.lines[frame.i]) = <<>> THEN Counted(frame, "blank", frame.in_multiline_comment)
    ELSE IF Contains(Strip(frame.lines[frame.i]), TRIPLE_DOUBLE) \/ Contains(Strip(frame.lines[frame.i]), TRIPLE_SINGLE)
    THEN Counted(frame, "comment", ~frame.in_multiline_comment)
    ELSE IF frame.in_multiline_comment
    THEN Counted(frame, "comment", frame.in_multiline_comment)
    ELSE IF \/ StartsWith(Strip(frame.lines[frame.i]), HASH)
            \/ StartsWith(Strip(frame.lines[frame.i]), SLASHES)
            \/ StartsWith(Strip(frame.lines[frame.i]), DASHES)
    THEN Counted(frame, "comment", frame.in_multiline_comment)
    ELSE IF StartsWith(Strip(frame.lines[frame.i]), BLOCK_OPEN)
    THEN Counted(frame, "comment", ~Contains(Strip(frame.lines[frame.i]), BLOCK_CLOSE))
    ELSE Counted(frame, "code", frame.in_multiline_comment)

\* The loop from the pass the frame is at to its end.
RECURSIVE TallyFrom(_)
TallyFrom(frame) == IF frame.i > Len(frame.lines) THEN frame ELSE TallyFrom(TallyLine(frame))

\* count_lines_by_type
CountLinesByType(code) == TallyFrom(NewTally(code)).result

TallyInit ==
    /\ tally = NoTally
    /\ scan = Idle /\ app = Idle
    /\ SecIdle /\ QualIdle /\ DraftIdle /\ PyIdle /\ BasicIdle /\ RunIdle

tallyOthers == <<sec, sec_results, sec_previous, qual, qual_results, draft, py, py_result, basic, basic_result, jobs, shared, scan, app>>

\* count_lines_by_type(code): the call enters the function.
TallyCall ==
    /\ tally = NoTally
    /\ \E n \in 1..MaxTallyLines : \E lines \in [1..n -> TallyCorpus] :
          tally' = NewTally(JoinLines(lines))
    /\ UNCHANGED tallyOthers

TallyPass ==
    /\ tally.pc = "loop" /\ tally.i <= Len(tally.lines)
    /\ tally' = TallyLine(tally)
    /\ UNCHANGED tallyOthers

\* return result
TallyReturn ==
    /\ tally.pc = "loop" /\ tally.i > Len(tally.lines)
    /\ tally' = [tally EXCEPT !.pc = "done"]
    /\ UNCHANGED tallyOthers

TallyNext == TallyCall \/ TallyPass \/ TallyReturn

SpecTally == TallyInit /\ [][TallyNext]_vars

TallyReturned == tally # Idle /\ tally.pc = "done"

\* The document has no triple-quote line, and line k is its first line that
\* starts with /*; the line has no */ on it.
OpensBlock(lines, k) ==
    /\ \A j \in 1..Len(lines) : ~Contains(lines[j], TRIPLE_DOUBLE) /\ ~Contains(lines[j], TRIPLE_SINGLE)
    /\ StartsWith(Strip(lines[k]), BLOCK_OPEN) /\ ~Contains(lines[k], BLOCK_CLOSE)
    /\ \A j \in 1..(k - 1) : ~StartsWith(Strip(lines[j]), BLOCK_OPEN)

\* Line c is the first line after line k that contains */.
ClosesBlock(lines, k, c) ==
    /\ c > k /\ Contains(lines[c], BLOCK_CLOSE)
    /\ \A j \in (k + 1)..(c - 1) : ~Contains(lines[j], BLOCK_CLOSE)

\* A line with text that is no comment by itself.
PlainCode(line) ==
    /\ Strip(line) # <<>>
    /\ ~StartsWith(Strip(line), HASH) /\ ~StartsWith(Strip(line), SLASHES)
    /\ ~StartsWith(Strip(line), DASHES) /\ ~StartsWith(Strip(line), BLOCK_OPEN)

\* C29: in count_lines_by_type a C-style block comment opened by a line
\* starting with /* that has no */ on it is closed by the first later line
\* containing */: that closing line is counted as comment, and the non-blank
\* lines after it that are not themselves comments are counted as code.
C29_BlockCommentCloses ==
    TallyReturned =>
        \A k, c \in 1..Len(tally.lines) :
            (OpensBlock(tally.lines, k) /\ ClosesBlock(tally.lines, k, c)) =>
                /\ tally.kinds[c] = "comment"
                /\ \A j \in (c + 1)..Len(tally.lines) :
                      (/\ PlainCode(tally.lines[j])
                       /\ \A o \in (c + 1)..(j - 1) : ~StartsWith(Strip(tally.lines[o]), BLOCK_OPEN))
                          => tally.kinds[j] = "code"

\* The lines of a block comment, its closing line among them, are counted as
\* comments.
BlockCommentCounted ==
    TallyReturned =>
        \A k, c \in 1..Len(tally.lines) :
            (OpensBlock(tally.lines, k) /\ ClosesBlock(tally.lines, k, c)) =>
                \A j \in k..c : tally.kinds[j] \in {"comment", "blank"}

\* A block comment, its closing line and a line of code after it have been
\* counted, and the line of code is counted as a comment.
CodeAfterBlockIsComment ==
    /\ TallyReturned
    /\ tally.lines = <<TALLY_OPEN, TALLY_CLOSE, TALLY_CODE>>
    /\ tally.result = [total |-> 3, code |-> 0, blank |-> 0, comment |-> 3]

(***************************************************************************)
(* main.py: the window and its worker threads.  load_file and paste_code   *)
(* run on the main thread and replace the document; run_full_analysis      *)
(* starts a worker thread that reads self.current_code and                 *)
(* self.current_language statement by statement and writes the dict        *)
(* self.analysis_results, which all workers share.  An analysis result is  *)
(* kept as the text and the language it was computed from.                 *)
(***************************************************************************)

\* 'a.py'
APP_PY_PATH == <<"a", ".", "p", "y">>

\* 'b.js'
APP_JS_PATH == <<"b", ".", "j", "s">>

\* 'def f(): import os'
APP_PY_TEXT == <<"d", "e", "f", " ", "f", "(", ")", ":", " ", "i", "m", "p", "o", "r", "t", " ", "o", "s">>

\* 'let x = 1'
APP_JS_TEXT == <<"l", "e", "t", " ", "x", " ", "=", " ", "1">>

\* '.py'
EXT_PY == <<".", "p", "y">>

\* '.js'
EXT_JS == <<".", "j", "s">>

\* 'def '
KW_DEF == <<"d", "e", "f", " ">>

\* 'import '
KW_IMPORT == <<"i", "m", "p", "o", "r", "t", " ">>

\* 'function '
KW_FUNCTION == <<"f", "u", "n", "c", "t", "i", "o", "n", " ">>

\* 'const '
KW_CONST == <<"c", "o", "n", "s", "t", " ">>

\* 'let '
KW_LET == <<"l", "e", "t", " ">>

\* 'class '
KW_CLASS == <<"c", "l", "a", "s", "s", " ">>

\* 'public '
KW_PUBLIC == <<"p", "u", "b", "l", "i", "c", " ">>

\* '#include'
KW_INCLUDE == <<"#", "i", "n", "c", "l", "u", "d", "e">>

\* The files the window can load: path and content.
AppFiles == {[path |-> APP_PY_PATH, content |-> APP_PY_TEXT], [path |-> APP_JS_PATH, content |-> APP_JS_TEXT]}

\* The texts the clipboard can hold.
AppClipboards == {APP_PY_TEXT, APP_JS_TEXT}

\* The documents loaded or pasted in one behaviour.
MaxDocuments == 2

\* The worker threads started in one behaviour.
MaxWorkers == 2

\* get_file_extension: the path from its last dot on, in lower case.
GetFileExtension(path) ==
    IF \E q \in 1..Len(path) : path[q] = "."
    THEN Lower(SubSeq(path, CHOOSE q \in 1..Len(path) : path[q] = "." /\ \A r \in (q + 1)..Len(path) : path[r] # ".", Len(path)))
    ELSE <<>>

\* detect_language: ext_map.get(ext, "Unknown"), for the extensions of the
\* files of the model.
DetectLanguage(path) ==
    IF GetFileExtension(path) = EXT_PY THEN "Python"
    ELSE IF GetFileExtension(path) = EXT_JS THEN "JavaScript"
    ELSE "Unknown"

\* _detect_language_from_content
DetectLanguageFromContent(code) ==
    IF Contains(code, KW_DEF) /\ Contains(code, KW_IMPORT) THEN "Python"
    ELSE IF Contains(code, KW_FUNCTION) \/ Contains(code, KW_CONST) \/ Contains(code, KW_LET) THEN "JavaScript"
    ELSE IF Contains(code, KW_CLASS) /\ Contains(code, KW_PUBLIC) THEN "Java"
    ELSE IF Contains(code, KW_INCLUDE) THEN "C/C++"
    ELSE "Unknown"

\* The keys run_full_analysis writes.
ResultKeys == {"basic", "python", "security", "performance", "quality", "lines", "todos"}

\* A result computed from a text and, where the analysis takes one, a language.
Computed(code, language) == [code |-> code, language |-> language]

\* The main thread between events.
MainIdle == [pc |-> "idle"]

\* A thread at the first statement of analyze(): nothing built, nothing stored.
NewWorker == [pc |-> "basic", analyzer |-> None, stored |-> [k \in ResultKeys |-> None]]

\* CodeAnalyticsApp.__init__: the application state.
NewApp(auto_analyze) ==
    [current_file |-> None, current_code |-> <<>>, current_language |-> "Unknown",
     analysis_results |-> [k \in ResultKeys |-> None],
     settings |-> [auto_analyze |-> auto_analyze],
     main |-> MainIdle, workers |-> <<>>, after |-> 0, shown |-> None, documents |-> 0]

\* run_full_analysis: nothing without a document, else a thread is started.
RunFullAnalysis(a) ==
    IF a.current_code = <<>> THEN a
    ELSE [a EXCEPT !.workers = Append(@, NewWorker)]

\* self.analysis_results[key] = ..., by worker w, which goes on to pc.
Stored(a, w, key, entry, pc) ==
    [a EXCEPT !.analysis_results[key] = Some(entry),
              !.workers[w].stored[key] = Some(entry),
              !.workers[w].pc = pc]

AppInit ==
    /\ \E auto_analyze \in BOOLEAN : app = NewApp(auto_analyze)
    /\ scan = Idle /\ tally = Idle
    /\ SecIdle /\ QualIdle /\ DraftIdle /\ PyIdle /\ BasicIdle /\ RunIdle

appOthers == <<sec, sec_results, sec_previous, qual, qual_results, draft, py, py_result, basic, basic_result, jobs, shared, scan, tally>>

\* load_file up to self.current_code = content
AppLoadFile ==
    /\ app.main = MainIdle /\ app.documents < MaxDocuments
    /\ app.settings.auto_analyze => Len(app.workers) < MaxWorkers
    /\ \E file \in AppFiles :
          app' = [app EXCEPT !.current_file = Some(file.path), !.current_code = file.content,
                             !.documents = @ + 1,
                             !.main = [pc |-> "load", language |-> DetectLanguage(file.path)]]
    /\ UNCHANGED appOthers

\* paste_code up to self.current_code = clipboard
AppPasteCode ==
    /\ app.main = MainIdle /\ app.documents < MaxDocuments
    /\ app.settings.auto_analyze => Len(app.workers) < MaxWorkers
    /\ \E clipboard \in AppClipboards :
          app' = [app EXCEPT !.current_file = None, !.current_code = clipboard,
                             !.documents = @ + 1,
                             !.main = [pc |-> "paste", language |-> DetectLanguageFromContent(clipboard)]]
    /\ UNCHANGED appOthers

\* self.current_language = ...; if self.settings["auto_analyze"]:
\* self.run_full_analysis(), the rest of load_file or paste_code
AppLanguage ==
    /\ app.main.pc \in {"load", "paste"}
    /\ app' = [(IF app.settings.auto_analyze
                THEN RunFullAnalysis([app EXCEPT !.current_language = app.main.language])
                ELSE [app EXCEPT !.current_language = app.main.language])
               EXCEPT !.main = MainIdle]
    /\ UNCHANGED appOthers

\* run_full_analysis from the menu, the toolbar or F5
AppRunFullAnalysis ==
    /\ app.main = MainIdle /\ Len(app.workers) < MaxWorkers
    /\ app' = RunFullAnalysis(app)
    /\ UNCHANGED appOthers

\* analyzer = get_analyzer(self.current_code, self.current_language);
\* self.analysis_results["basic"] = {...}
WorkerBasic ==
    \E w \in 1..Len(app.workers) :
        /\ app.workers[w].pc = "basic"
        /\ app' = [Stored(app, w, "basic", Computed(app.current_code, Some(app.current_language)), "python")
                   EXCEPT !.workers[w].analyzer = Some(Computed(app.current_code, Some(app.current_language)))]
        /\ UNCHANGED appOthers

\* if self.current_language == "Python" and isinstance(analyzer, PythonAnalyzer):
\*     self.analysis_results["python"] = {...}
WorkerPython ==
    \E w \in 1..Len(app.workers) :
        /\ app.workers[w].pc = "python"
        /\ app' = IF app.current_language = "Python" /\ app.workers[w].analyzer[1].language = Some("Python")
                  THEN Stored(app, w, "python", app.workers[w].analyzer[1], "security")
                  ELSE [app EXCEPT !.workers[w].pc = "security"]
        /\ UNCHANGED appOthers

\* security = SecurityAnalyzer(self.current_code, self.current_language);
\* self.analysis_results["security"] = security.analyze(), and the same for
\* the performance and the quality analysis
WorkerAnalyzer ==
    \E w \in 1..Len(app.workers) :
        /\ app.workers[w].pc \in {"security", "performance", "quality"}
        /\ app' = Stored(app, w, app.workers[w].pc, Computed(app.current_code, Some(app.current_language)),
                         IF app.workers[w].pc = "security" THEN "performance"
                         ELSE IF app.workers[w].pc = "performance" THEN "quality" ELSE "lines")
        /\ UNCHANGED appOthers

\* self.analysis_results["lines"] = count_lines_by_type(self.current_code);
\* self.analysis_results["todos"] = find_todos(self.current_code)
WorkerText ==
    \E w \in 1..Len(app.workers) :
        /\ app.workers[w].pc \in {"lines", "todos"}
        /\ app' = Stored(app, w, app.workers[w].pc, Computed(app.current_code, None),
                         IF app.workers[w].pc = "lines" THEN "todos" ELSE "after")
        /\ UNCHANGED appOthers

\* self.root.after(0, self._update_analysis_ui)
WorkerAfter ==
    \E w \in 1..Len(app.workers) :
        /\ app.workers[w].pc = "after"
        /\ app' = [app EXCEPT !.workers[w].pc = "done", !.after = @ + 1]
        /\ UNCHANGED appOthers

\* _update_analysis_ui on the main thread: the tabs show analysis_results.
AppUpdateAnalysisUi ==
    /\ app.main = MainIdle /\ app.after > 0
    /\ app' = [app EXCEPT !.after = @ - 1, !.shown = Some(app.analysis_results)]
    /\ UNCHANGED appOthers

AppNext ==
    \/ AppLoadFile \/ AppPasteCode \/ AppLanguage \/ AppRunFullAnalysis \/ AppUpdateAnalysisUi
    \/ WorkerBasic \/ WorkerPython \/ WorkerAnalyzer \/ WorkerText \/ WorkerAfter

SpecApp == AppInit /\ [][AppNext]_vars

\* The results a dict of results holds.
EntriesOf(results) == {results[k][1] : k \in {key \in ResultKeys : results[key] # None}}

\* The results come from one text and one language.
OneSource(entries) ==
    \A e, f \in entries :
        /\ e.code = f.code
        /\ (e.language # None /\ f.language # None) => e.language = f.language

\* C30: all entries one run_full_analysis worker thread stores in
\* analysis_results (basic, python, security, performance, quality, lines,
\* todos) are computed from one and the same (code text, language) pair, even
\* when load_file or paste_code replaces the current document, or a second
\* run_full_analysis starts, while the worker is running; the UI update never
\* shows results mixed from two documents.
C30_OneDocumentPerRun ==
    app # Idle =>
        /\ \A w \in 1..Len(app.workers) : OneSource(EntriesOf(app.workers[w].stored))
        /\ app.shown # None => OneSource(EntriesOf(app.shown[1]))

\* A worker has stored the results of a text under the language of the
\* document before it.
WorkerMixesDocuments ==
    /\ app # Idle
    /\ \E w \in 1..Len(app.workers) :
          /\ app.workers[w].pc = "done"
          /\ ~OneSource(EntriesOf(app.workers[w].stored))

\* The window shows the results of one worker that mixed nothing, with the
\* python results of the document before among them.
StalePythonShown ==
    /\ app # Idle /\ app.shown # None
    /\ \A w \in 1..Len(app.workers) : OneSource(EntriesOf(app.workers[w].stored))
    /\ ~OneSource(EntriesOf(app.shown[1]))

\* With one document and one worker the results shown come from the document.
SingleRunShown ==
    (app # Idle /\ app.shown # None /\ app.documents = 1 /\ Len(app.workers) = 1 /\ app.main = MainIdle) =>
        \A e \in EntriesOf(app.shown[1]) :
            e.code = app.current_code /\ (e.language # None => e.language = Some(app.current_language))

====
